---- MODULE Spec2Model ----
(***************************************************************************)
(* Task DAG planner, task state store and task dispatcher of the report    *)
(* generator: src/unnamed/part_006 (planner-agent.ts), the second half of  *)
(* src/src/services/supabase-client.ts (task-state-store.ts), the SQL      *)
(* function list_ready_tasks, src/unnamed/part_008 (task-dispatcher.ts)    *)
(* and src/src/workers/index.ts (attachDispatcher).                        *)
(*                                                                         *)
(* Task ids are pairs <<prefix, outlineId>> standing for the string        *)
(* `${prefix}:${outlineId}`.  A store is a function from the ids of the    *)
(* rows of one project to the rows.  Every await of a dispatcher call on   *)
(* the store or on a queue is one step of the handler that makes it.       *)
(***************************************************************************)
EXTENDS Integers, Sequences, FiniteSets, TLC

VARIABLES
    taskState,  \* task_state rows of every project, keyed by (project_id, node_id)
    project,    \* history: the projectId of the last call made on the shared table
    crashes,    \* how often the dispatcher process has stopped in the middle of a call
    plan,       \* the PlannerContext handed to buildDag(), when the planner is what runs
    dag,        \* the TaskDag returned by buildDag() / handed to schedule()
    store,      \* task_state rows of the project, keyed by node id
    jobs,       \* the jobs ever added to the queues, by job name, with their life cycle
    events,     \* worker events emitted and not yet picked up by a handler
    procs,      \* the dispatcher calls in flight, one per handler slot
    marked,     \* history: ids that were written "failed" at some time
    listed,     \* the rows the last direct listReadyTasks call returned
    overlaps    \* dispatcher calls begun while another call was in flight

vars == <<taskState, project, crashes, plan, dag, store, jobs, events, procs, marked, listed, overlaps>>

----------------------------------------------------------------------------
(* Bounds *)

MaxSoftFails == 1       \* soft_fail verdicts the verifier may return per run
MaxExtraJobs == 1       \* jobs added per run beyond one per task and repair round
MaxOverlaps == 1        \* calls begun while another call is in flight, per run
MaxRounds == 3          \* soft_fail verdicts per run when the verifier never accepts
MaxRedeliveries == 1    \* completed events the queue delivers a second time, per run
MaxDepth == 3           \* levels of nesting of an outline
MaxWidth == 2           \* chapters at the top level of an outline
MaxCrashes == 1         \* stops of the dispatcher process in the middle of a call, per run

----------------------------------------------------------------------------
(* Values *)

None == "none"                      \* undefined / null
NoId == <<"none", "none">>
DocumentId == <<"assemble", "document">>

\* A JSON value as far as the dispatcher looks into it: `tag` says which
\* object it is, `draft` is its .draft property, `status` its .status
\* property, `patches` and `violations` the verifier's lists, `prompt` its
\* .prompts.user_prompt_text, `contextPack` and `renderedBlock` the
\* properties of these names.  A draft kept by itself is the value Draft(d):
\* it has no .draft property of its own.
NoValue ==
    [tag |-> None, draft |-> None, status |-> None, patches |-> None, violations |-> None,
     prompt |-> None, contextPack |-> None, renderedBlock |-> None]
Obj(tag) == [NoValue EXCEPT !.tag = tag]
Draft(d) == IF d = None THEN NoValue ELSE Obj(d)

NoMetadata == [draft |-> None, pendingPatches |-> None, violations |-> None]

Statuses == {"pending", "running", "completed", "failed", "cancelled", "blocked"}

\* applyPatch of the autofix worker: the patched draft
ApplyPatch(d) == IF d = None THEN None ELSE "d1"

SeqToSet(s) == {s[i] : i \in 1..Len(s)}
Includes(s, x) == \E i \in 1..Len(s) : s[i] = x

----------------------------------------------------------------------------
(* DAG planner (planner-agent.ts) *)

\* A flattened outline entry: chapter number and whether it has fixed_content;
\* it has a title unless said otherwise.
OutlineEntry(num, fixed) == [num |-> num, fixed |-> fixed, title |-> "title"]

\* An OutlineNode: chapter_number, fixed_content set or not, outline_structure, title
OutlineNode(num, fixed, children) ==
    [num |-> num, fixed |-> fixed, children |-> children, title |-> "title"]

\* flattenOutline: pre-order walk, a node before its outline_structure
RECURSIVE FlattenOutline(_)
FlattenOutline(outline) ==
    IF outline = <<>> THEN <<>>
    ELSE << [OutlineEntry(Head(outline).num, Head(outline).fixed)
                EXCEPT !.title = Head(outline).title] >>
         \o FlattenOutline(Head(outline).children)
         \o FlattenOutline(Tail(outline))

\* an asset index record: its embed_ready and table_ready columns
Asset(embed, table) == [embed_ready |-> embed, table_ready |-> table]

\* context.assetsIndex.some(asset => asset.embed_ready), likewise table_ready
HasEmbedReady(assetsIndex) == \E i \in 1..Len(assetsIndex) : assetsIndex[i].embed_ready
HasTableReady(assetsIndex) == \E i \in 1..Len(assetsIndex) : assetsIndex[i].table_ready

Node(id, type, deps) == [id |-> id, type |-> type, dependencies |-> deps]
Edge(from, to) == [from |-> from, to |-> to]

\* addNode: a node whose id is already indexed is dropped
AddNode(nodes, node) ==
    IF \E i \in 1..Len(nodes) : nodes[i].id = node.id THEN nodes ELSE Append(nodes, node)

RECURSIVE AddNodes(_, _)
AddNodes(nodes, new) ==
    IF new = <<>> THEN nodes ELSE AddNodes(AddNode(nodes, Head(new)), Tail(new))

\* a chain whose prepare node waits for the chapter's assemble node
ChapterNodesWithBackEdge(e, retrieve) ==
    IF e.fixed
    THEN << Node(<<"materialize", e.num>>, "materialize_fixed", <<>>),
            Node(<<"assemble", e.num>>, "assemble", << <<"materialize", e.num>> >>) >>
    ELSE LET last == IF retrieve THEN <<"retrieve", e.num>> ELSE <<"prepare", e.num>>
         IN  << Node(<<"prepare", e.num>>, "prepare", << <<"assemble", e.num>> >>) >>
             \o (IF retrieve
                 THEN << Node(<<"retrieve", e.num>>, "retrieve", << <<"prepare", e.num>> >>) >>
                 ELSE <<>>)
             \o << Node(<<"write", e.num>>, "write", <<last>>),
                   Node(<<"verify", e.num>>, "verify", << <<"write", e.num>> >>),
                   Node(<<"assemble", e.num>>, "assemble", << <<"verify", e.num>> >>) >>

\* the nodes one loop iteration of buildDag offers to addNode, in order
ChapterNodes(e, retrieve) ==
    IF e.fixed
    THEN << Node(<<"materialize", e.num>>, "materialize_fixed", <<>>),
            Node(<<"assemble", e.num>>, "assemble", << <<"materialize", e.num>> >>) >>
    ELSE LET last == IF retrieve THEN <<"retrieve", e.num>> ELSE <<"prepare", e.num>>
         IN  << Node(<<"prepare", e.num>>, "prepare", <<>>) >>
             \o (IF retrieve
                 THEN << Node(<<"retrieve", e.num>>, "retrieve", << <<"prepare", e.num>> >>) >>
                 ELSE <<>>)
             \o << Node(<<"write", e.num>>, "write", <<last>>),
                   Node(<<"verify", e.num>>, "verify", << <<"write", e.num>> >>),
                   Node(<<"assemble", e.num>>, "assemble", << <<"verify", e.num>> >>) >>

\* the fixed branch pushing no edge
ChapterEdgesNoFixedEdge(e, retrieve) ==
    IF e.fixed
    THEN <<>>
    ELSE LET last == IF retrieve THEN <<"retrieve", e.num>> ELSE <<"prepare", e.num>>
         IN  (IF retrieve THEN << Edge(<<"prepare", e.num>>, <<"retrieve", e.num>>) >> ELSE <<>>)
             \o << Edge(last, <<"write", e.num>>),
                   Edge(<<"write", e.num>>, <<"verify", e.num>>),
                   Edge(<<"verify", e.num>>, <<"assemble", e.num>>) >>

\* the edges one loop iteration pushes
ChapterEdges(e, retrieve) ==
    IF e.fixed
    THEN << Edge(<<"materialize", e.num>>, <<"assemble", e.num>>) >>
    ELSE LET last == IF retrieve THEN <<"retrieve", e.num>> ELSE <<"prepare", e.num>>
         IN  (IF retrieve THEN << Edge(<<"prepare", e.num>>, <<"retrieve", e.num>>) >> ELSE <<>>)
             \o << Edge(last, <<"write", e.num>>),
                   Edge(<<"write", e.num>>, <<"verify", e.num>>),
                   Edge(<<"verify", e.num>>, <<"assemble", e.num>>) >>

RECURSIVE PlanNodes(_, _, _)
PlanNodes(flattened, retrieve, nodes) ==
    IF flattened = <<>> THEN nodes
    ELSE PlanNodes(Tail(flattened), retrieve, AddNodes(nodes, ChapterNodes(Head(flattened), retrieve)))

RECURSIVE PlanEdges(_, _)
PlanEdges(flattened, retrieve) ==
    IF flattened = <<>> THEN <<>>
    ELSE ChapterEdges(Head(flattened), retrieve) \o PlanEdges(Tail(flattened), retrieve)

\* a filter that keeps the assemble nodes of generated chapters only
AssembleNodesGeneratedOnly(nodes) ==
    SelectSeq(nodes, LAMBDA n : n.type = "assemble" /\ n.dependencies[1][1] = "verify")

\* nodes.filter(node => node.type === "assemble")
AssembleNodes(nodes) == SelectSeq(nodes, LAMBDA n : n.type = "assemble")

\* buildDag creating retrieve nodes for embed-ready assets only
BuildDagEmbedOnly(flattened, hasEmbedReady, hasTableReady) ==
    LET retrieve == hasEmbedReady
        nodes == PlanNodes(flattened, retrieve, <<>>)
        edges == PlanEdges(flattened, retrieve)
        asm == AssembleNodes(nodes)
    IN  IF Len(asm) > 0
        THEN [nodes |-> AddNode(nodes, Node(DocumentId, "assemble", [i \in 1..Len(asm) |-> asm[i].id])),
              edges |-> edges \o [i \in 1..Len(asm) |-> Edge(asm[i].id, DocumentId)]]
        ELSE [nodes |-> nodes, edges |-> edges]

\* buildDag making the sink depend on the first assemble node only
BuildDagFirstChapterOnly(flattened, hasEmbedReady, hasTableReady) ==
    LET retrieve == hasEmbedReady \/ hasTableReady
        nodes == PlanNodes(flattened, retrieve, <<>>)
        edges == PlanEdges(flattened, retrieve)
        asm == AssembleNodes(nodes)
    IN  IF Len(asm) > 0
        THEN [nodes |-> AddNode(nodes, Node(DocumentId, "assemble", <<asm[1].id>>)),
              edges |-> Append(edges, Edge(asm[1].id, DocumentId))]
        ELSE [nodes |-> nodes, edges |-> edges]

\* buildDag on the flattened outline; hasEmbedReady, hasTableReady are the
\* two project-wide asset flags
BuildDag(flattened, hasEmbedReady, hasTableReady) ==
    LET retrieve == hasEmbedReady \/ hasTableReady
        nodes == PlanNodes(flattened, retrieve, <<>>)
        edges == PlanEdges(flattened, retrieve)
        asm == AssembleNodes(nodes)
    IN  IF Len(asm) > 0
        THEN [nodes |-> AddNode(nodes, Node(DocumentId, "assemble", [i \in 1..Len(asm) |-> asm[i].id])),
              edges |-> edges \o [i \in 1..Len(asm) |-> Edge(asm[i].id, DocumentId)]]
        ELSE [nodes |-> nodes, edges |-> edges]

----------------------------------------------------------------------------
(* Task state store (task-state-store.ts, list_ready_tasks) *)

\* a row as persistDag inserts it; dependents, result, error, retries take
\* the column defaults
Row(node) ==
    [type |-> node.type, status |-> "pending", dependencies |-> node.dependencies,
     dependents |-> <<>>, metadata |-> NoMetadata, result |-> NoValue,
     error |-> None, retries |-> 0]

\* the insert of persistDag: one row per node of the DAG
InsertNodes(st, nodes) ==
    [id \in DOMAIN st \cup {nodes[i].id : i \in 1..Len(nodes)} |->
        IF id \in DOMAIN st THEN st[id]
        ELSE Row(nodes[CHOOSE i \in 1..Len(nodes) : nodes[i].id = id])]

\* addDependent without its includes() test
PutDependentAlways(st, fromNode, dependents, toNode) ==
    IF fromNode \notin DOMAIN st THEN st
    ELSE [st EXCEPT ![fromNode].dependents = Append(dependents, toNode)]

\* the update of addDependent, given the dependents it has read
PutDependent(st, fromNode, dependents, toNode) ==
    IF Includes(dependents, toNode) \/ fromNode \notin DOMAIN st THEN st
    ELSE [st EXCEPT ![fromNode].dependents = Append(dependents, toNode)]

\* the fields argument of updateStatus; NoValue / None stand for "not supplied"
\* (retries -1: not supplied; metadata is supplied iff hasMetadata)
NoFields ==
    [result |-> NoValue, error |-> None, retries |-> -1,
     hasMetadata |-> FALSE, metadata |-> NoMetadata]

\* updateStatus writing the error column whether or not an error is supplied
UpdateStatusClearsError(st, nodeId, status, fields) ==
    IF nodeId \notin DOMAIN st THEN st
    ELSE [st EXCEPT ![nodeId] =
            [@ EXCEPT !.status = status,
                      !.result = IF fields.result # NoValue THEN fields.result ELSE @,
                      !.error = fields.error,
                      !.retries = IF fields.retries # -1 THEN fields.retries ELSE @,
                      !.metadata = IF fields.hasMetadata THEN fields.metadata ELSE @]]

\* updateStatus counting every write of a row in its retries column
UpdateStatusCounting(st, nodeId, status, fields) ==
    IF nodeId \notin DOMAIN st THEN st
    ELSE [st EXCEPT ![nodeId] =
            [@ EXCEPT !.status = status,
                      !.result = IF fields.result # NoValue THEN fields.result ELSE @,
                      !.error = IF fields.error # None THEN fields.error ELSE @,
                      !.retries = (@ + 1) % 4,
                      !.metadata = IF fields.hasMetadata THEN fields.metadata ELSE @]]

\* updateStatus: an UPDATE ... WHERE project_id, node_id; no row, no change
UpdateStatus(st, nodeId, status, fields) ==
    IF nodeId \notin DOMAIN st THEN st
    ELSE [st EXCEPT ![nodeId] =
            [@ EXCEPT !.status = status,
                      !.result = IF fields.result # NoValue THEN fields.result ELSE @,
                      !.error = IF fields.error # None THEN fields.error ELSE @,
                      !.retries = IF fields.retries # -1 THEN fields.retries ELSE @,
                      !.metadata = IF fields.hasMetadata THEN fields.metadata ELSE @]]

\* getTask / getTasks: the record of a row, None when there is no row
TaskRecord(st, nodeId) ==
    [nodeId |-> nodeId, type |-> st[nodeId].type, status |-> st[nodeId].status,
     dependencies |-> st[nodeId].dependencies, dependents |-> st[nodeId].dependents,
     metadata |-> st[nodeId].metadata, result |-> st[nodeId].result,
     error |-> st[nodeId].error, retries |-> st[nodeId].retries]

NoTask ==
    [nodeId |-> NoId, type |-> None, status |-> None, dependencies |-> <<>>,
     dependents |-> <<>>, metadata |-> NoMetadata, result |-> NoValue,
     error |-> None, retries |-> 0]

GetTask(st, nodeId) == IF nodeId \in DOMAIN st THEN TaskRecord(st, nodeId) ELSE NoTask

\* addDependent: read the dependents of fromNode, append toNode if absent
AddDependent(st, fromNode, toNode) ==
    PutDependent(st, fromNode, GetTask(st, fromNode).dependents, toNode)

RECURSIVE AddDependents(_, _)
AddDependents(st, edges) ==
    IF edges = <<>> THEN st
    ELSE AddDependents(AddDependent(st, Head(edges).from, Head(edges).to), Tail(edges))

\* persistDag: the insert, then addDependent for every edge in order
PersistDag(st, d) == AddDependents(InsertNodes(st, d.nodes), d.edges)

\* list_ready_tasks without its NOT EXISTS clause: every pending row
IsReadyRowPendingOnly(st, id) == st[id].status = "pending"

\* list_ready_tasks accepting a running dependency as well
IsReadyRowRunningCounts(st, id) ==
    /\ st[id].status = "pending"
    /\ ~ \E dep \in SeqToSet(st[id].dependencies) :
            /\ dep \in DOMAIN st
            /\ st[dep].status \notin {"completed", "running"}

\* list_ready_tasks: pending rows for which no dependency id joins a row
\* whose status is not 'completed'
IsReadyRow(st, id) ==
    /\ st[id].status = "pending"
    /\ ~ \E dep \in SeqToSet(st[id].dependencies) :
            /\ dep \in DOMAIN st
            /\ st[dep].status \notin {"completed"}

\* list_ready_tasks returning only the rows without dependencies
ListReadyTasksRootsOnly(st) ==
    {[TaskRecord(st, id) EXCEPT !.result = NoValue, !.error = None] :
        id \in {i \in DOMAIN st : IsReadyRow(st, i) /\ st[i].dependencies = <<>>}}

\* listReadyTasks maps the rows; the function returns no result, error column
ListReadyTasks(st) ==
    {[TaskRecord(st, id) EXCEPT !.result = NoValue, !.error = None] : id \in {i \in DOMAIN st : IsReadyRow(st, i)}}

\* markBlocked returning early for a non-empty list as well
MarkBlockedSkipped(st, nodeIds) == st

\* markBlocked without any WHERE clause on the node
MarkBlockedAllRows(st, nodeIds) == [id \in DOMAIN st |-> [st[id] EXCEPT !.status = "blocked"]]

\* markBlocked without its IN clause: every pending row of the project
MarkBlockedEveryPending(st, nodeIds) ==
    [id \in DOMAIN st |->
        IF st[id].status = "pending" THEN [st[id] EXCEPT !.status = "blocked"] ELSE st[id]]

\* markBlocked: UPDATE status = 'blocked' WHERE node_id IN nodeIds
MarkBlocked(st, nodeIds) ==
    [id \in DOMAIN st |->
        IF Includes(nodeIds, id) THEN [st[id] EXCEPT !.status = "blocked"] ELSE st[id]]

\* clearProject sparing the completed rows
ClearProjectKeepsCompleted(st) ==
    [id \in {i \in DOMAIN st : st[i].status = "completed"} |-> st[id]]

\* clearProject: DELETE WHERE project_id
EmptyStore == [id \in {} |-> Row(Node(NoId, None, <<>>))]
ClearProject(st) == EmptyStore

----------------------------------------------------------------------------
(* The task_state table shared by the projects: the same statements with
   their project_id conditions, on rows keyed by (project_id, node_id) *)

EmptyTable == [k \in {} |-> Row(Node(NoId, None, <<>>))]

\* the insert of persistDag: project_id: projectId on every row
TableInsertNodes(tb, projectId, nodes) ==
    [k \in DOMAIN tb \cup {<<projectId, nodes[i].id>> : i \in 1..Len(nodes)} |->
        IF k \in DOMAIN tb THEN tb[k]
        ELSE Row(nodes[CHOOSE i \in 1..Len(nodes) : nodes[i].id = k[2]])]

\* addDependent: select and update .eq(project_id).eq(node_id)
TableAddDependent(tb, projectId, fromNode, toNode) ==
    LET k == <<projectId, fromNode>>
        dependents == IF k \in DOMAIN tb THEN tb[k].dependents ELSE <<>>
    IN  IF Includes(dependents, toNode) \/ k \notin DOMAIN tb THEN tb
        ELSE [tb EXCEPT ![k].dependents = Append(dependents, toNode)]

\* persistDag after its insert: addDependent for every edge in order
RECURSIVE TableAddDependents(_, _, _)
TableAddDependents(tb, projectId, edges) ==
    IF edges = <<>> THEN tb
    ELSE TableAddDependents(TableAddDependent(tb, projectId, Head(edges).from, Head(edges).to),
                            projectId, Tail(edges))

\* updateStatus: UPDATE ... .eq(project_id).eq(node_id)
TableUpdateStatus(tb, projectId, nodeId, status, fields) ==
    [k \in DOMAIN tb |->
        IF k[1] = projectId /\ k[2] = nodeId
        THEN [tb[k] EXCEPT !.status = status,
                           !.result = IF fields.result # NoValue THEN fields.result ELSE @,
                           !.error = IF fields.error # None THEN fields.error ELSE @,
                           !.retries = IF fields.retries # -1 THEN fields.retries ELSE @,
                           !.metadata = IF fields.hasMetadata THEN fields.metadata ELSE @]
        ELSE tb[k]]

\* markBlocked without its project_id condition
TableMarkBlockedAnyProject(tb, projectId, nodeIds) ==
    [k \in DOMAIN tb |->
        IF Includes(nodeIds, k[2])
        THEN [tb[k] EXCEPT !.status = "blocked"] ELSE tb[k]]

\* markBlocked: UPDATE status = 'blocked' .eq(project_id).in(node_id, nodeIds)
TableMarkBlocked(tb, projectId, nodeIds) ==
    [k \in DOMAIN tb |->
        IF k[1] = projectId /\ Includes(nodeIds, k[2])
        THEN [tb[k] EXCEPT !.status = "blocked"] ELSE tb[k]]

\* clearProject: DELETE .eq(project_id)
TableClearProject(tb, projectId) ==
    [k \in {r \in DOMAIN tb : r[1] # projectId} |-> tb[k]]

\* list_ready_tasks(input_project_id): the dependency rows are joined on
\* dep_state.project_id = ts.project_id
TableListReadyTasks(tb, projectId) ==
    {k \in DOMAIN tb :
        /\ k[1] = projectId
        /\ tb[k].status = "pending"
        /\ ~ \E dep \in SeqToSet(tb[k].dependencies) :
                /\ <<k[1], dep>> \in DOMAIN tb
                /\ tb[<<k[1], dep>>].status \notin {"completed"}}

\* enqueueReadyTasks as far as the table goes: updateStatus(running) for
\* every listed task
RECURSIVE TableMarkRunning(_, _)
TableMarkRunning(tb, ready) ==
    IF ready = {} THEN tb
    ELSE LET k == CHOOSE r \in ready : TRUE
         IN  TableMarkRunning(TableUpdateStatus(tb, k[1], k[2], "running", NoFields), ready \ {k})

\* enqueueReadyTasks: listReadyTasks, then the loop
TableEnqueueReadyTasks(tb, projectId) ==
    TableMarkRunning(tb, TableListReadyTasks(tb, projectId))

\* blockDependentsOnFailure: getTask, then markBlocked(record.dependents)
TableBlockDependents(tb, projectId, nodeId) ==
    LET k == <<projectId, nodeId>>
    IN  IF k \notin DOMAIN tb THEN tb
        ELSE IF tb[k].dependents = <<>> THEN tb
        ELSE TableMarkBlocked(tb, projectId, tb[k].dependents)


----------------------------------------------------------------------------
(* Job payloads and queues (task-dispatcher.ts) *)

\* task.dependencies.find(id => id.startsWith(prefix)) ?? ""
FindDep(deps, prefix) ==
    IF \E i \in 1..Len(deps) : deps[i][1] = prefix
    THEN deps[CHOOSE i \in 1..Len(deps) :
                /\ deps[i][1] = prefix
                /\ \A k \in 1..(i - 1) : deps[k][1] # prefix]
    ELSE NoId

\* findResult over getTasks(projectId, task.dependencies)
FindResult(st, task, nodeId) ==
    IF Includes(task.dependencies, nodeId) /\ nodeId \in DOMAIN st
    THEN st[nodeId].result ELSE NoValue

Coalesce(a, b) == IF a # None THEN a ELSE b

\* a payload; fixedBlocks and children are lists, <<>> also when undefined
NoPayload ==
    [nodeId |-> NoId, draft |-> None, patches |-> None, prompt |-> None,
     contextPack |-> None, fixedBlocks |-> <<>>, children |-> <<>>]

\* write: prepareResult?.prompts?.user_prompt_text ?? task.metadata.prompt ?? "";
\* no metadata built by buildDag has a key prompt
WritePrompt(st, task) ==
    Coalesce(FindResult(st, task, FindDep(task.dependencies, "prepare")).prompt, "")

\* buildJobPayload: the fields of the payload that come from results, and children
BuildJobPayload(st, task) ==
    CASE task.type = "write" ->
            LET retrieveResult == FindResult(st, task, FindDep(task.dependencies, "retrieve"))
            IN  [NoPayload EXCEPT !.nodeId = task.nodeId,
                                  !.prompt = WritePrompt(st, task),
                                  !.contextPack = Coalesce(retrieveResult.contextPack, "[]")]
      [] task.type = "verify" ->
            LET writeResult == FindResult(st, task, FindDep(task.dependencies, "write"))
            IN  [NoPayload EXCEPT !.nodeId = task.nodeId,
                                  !.draft = Coalesce(writeResult.draft, task.metadata.draft)]
      [] task.type = "assemble" ->
            LET verified == FindResult(st, task, FindDep(task.dependencies, "verify"))
                materialized == FindResult(st, task, FindDep(task.dependencies, "materialize"))
            IN  [NoPayload EXCEPT !.nodeId = task.nodeId,
                                  !.fixedBlocks = IF materialized # NoValue
                                                  THEN <<materialized.renderedBlock>> ELSE <<>>,
                                  !.draft = Coalesce(verified.draft, task.metadata.draft),
                                  !.children = task.dependents]
      [] OTHER -> [NoPayload EXCEPT !.nodeId = task.nodeId]

\* resolveQueue: the queue of a task type
ResolveQueue(type) ==
    CASE type = "materialize_fixed" -> "materializer"
      [] type = "prepare" -> "planner"
      [] type = "retrieve" -> "retriever"
      [] type = "write" -> "writer"
      [] type = "verify" -> "verifier"
      [] type = "assemble" -> "assembler"

\* startAllWorkers: the event type attachDispatcher gives the worker of a queue
WorkerType(queue) ==
    CASE queue = "materializer" -> "materialize_fixed"
      [] queue = "planner" -> "prepare"
      [] queue = "retriever" -> "retrieve"
      [] queue = "writer" -> "write"
      [] queue = "verifier" -> "verify"
      [] queue = "assembler" -> "assemble"
      [] queue = "autofixer" -> "autofix"

\* a job as queue.add creates it; `out` is its return value once it has one
Job(queue, payload) ==
    [queue |-> queue, payload |-> payload, state |-> "waiting", out |-> NoValue]

\* the job name queue.add is given: `${projectId}:${nodeId}` or
\* `${projectId}:${nodeId}:autofix`
JobName(queue, nodeId) == <<nodeId, IF queue = "autofixer" THEN "autofix" ELSE "task">>

\* queue.add(name, payload, options)
AddJob(js, queue, payload) ==
    [js EXCEPT ![JobName(queue, payload.nodeId)] = Append(@, Job(queue, payload))]

NewJobRef(js, queue, nodeId) == <<JobName(queue, nodeId), Len(js[JobName(queue, nodeId)]) + 1>>

\* the jobs of the queues: <<name, position among the jobs of that name>>
JobRefs == UNION {{<<name, i>> : i \in 1..Len(jobs[name])} : name \in DOMAIN jobs}
JobAt(r) == jobs[r[1]][r[2]]
SetJobState(js, r, state) == [js EXCEPT ![r[1]][r[2]].state = state]
SetJobOut(js, r, result) == [js EXCEPT ![r[1]][r[2]].state = "finished", ![r[1]][r[2]].out = result]
NoJob == <<<<NoId, "task">>, 0>>

\* jobs of a task beyond its first one and one per repair of it
Extra(nodeId) ==
    LET n == Len(jobs[<<nodeId, "task">>]) - 1 - Len(jobs[<<nodeId, "autofix">>])
    IN  IF n > 0 THEN n ELSE 0
RECURSIVE SumExtra(_)
SumExtra(ids) ==
    IF ids = {} THEN 0
    ELSE LET id == CHOOSE x \in ids : TRUE IN Extra(id) + SumExtra(ids \ {id})
ExtraJobs == SumExtra({name[1] : name \in DOMAIN jobs})
IsExtraJob(nodeId) == Len(jobs[<<nodeId, "task">>]) - Len(jobs[<<nodeId, "autofix">>]) > 0

----------------------------------------------------------------------------
(* Worker events (workers/index.ts, agent-workers.ts) *)

NoEvent ==
    [kind |-> None, type |-> None, nodeId |-> NoId, status |-> None,
     result |-> NoValue, error |-> None, job |-> NoJob]

\* worker.on("active") / worker.on("failed"): a progress event
ProgressEvent(j, status, error) ==
    [NoEvent EXCEPT !.kind = "progress", !.type = WorkerType(JobAt(j).queue),
                    !.nodeId = JobAt(j).payload.nodeId, !.status = status,
                    !.error = error, !.job = j]

\* worker.on("completed"): a result event with the job's return value
ResultEvent(j, result) ==
    [NoEvent EXCEPT !.kind = "result", !.type = WorkerType(JobAt(j).queue),
                    !.nodeId = JobAt(j).payload.nodeId, !.result = result, !.job = j]

\* a result event that carries an error, as handleWorkerResult accepts it
ErrorResultEvent(j, error) ==
    [NoEvent EXCEPT !.kind = "result", !.type = WorkerType(JobAt(j).queue),
                    !.nodeId = JobAt(j).payload.nodeId, !.error = error, !.job = j]

\* the values a worker can return for a job
WorkerResults(job) ==
    CASE job.queue = "writer" -> {[Obj("write") EXCEPT !.draft = "d0"]}
      [] job.queue = "verifier" ->
            {[Obj("verdict") EXCEPT !.status = "accept", !.draft = job.payload.draft],
             [Obj("verdict") EXCEPT !.status = "hard_fail", !.draft = job.payload.draft,
                                    !.violations = "v1"],
             [Obj("verdict") EXCEPT !.status = "soft_fail", !.draft = job.payload.draft,
                                    !.violations = "v1", !.patches = "p1"]}
      [] job.queue = "autofixer" ->
            {[Obj("autofix") EXCEPT !.draft = ApplyPatch(job.payload.draft)]}
      [] job.queue = "planner" -> {[Obj("prepare") EXCEPT !.prompt = "u1"]}
      [] job.queue = "retriever" -> {[Obj("retrieve") EXCEPT !.contextPack = "c1"]}
      [] job.queue = "materializer" -> {[Obj("materialize_fixed") EXCEPT !.renderedBlock = "b1"]}
      [] OTHER -> {Obj(WorkerType(job.queue))}

SoftFailsSoFar == Cardinality({r \in JobRefs : JobAt(r).queue = "autofixer"})

IsTerminal(ev) == ev.kind = "result" \/ (ev.kind = "progress" /\ ev.status = "failed")

\* the event is the second delivery of the completed event of its job
IsDuplicate(ev) == ev.kind = "result" /\ JobAt(ev.job).state \in {"again", "redone"}
Redelivered == Cardinality({r \in JobRefs : JobAt(r).state \in {"again", "redone"}})

----------------------------------------------------------------------------
(* Dispatcher calls in flight *)

Idle ==
    [op |-> "idle", pc |-> "idle", ev |-> NoEvent, ready |-> {}, task |-> NoTask,
     payload |-> NoPayload, edges |-> <<>>,
     pre |-> EmptyStore, added |-> {}]      \* history: the store when the call began, the jobs it added

\* handleVerifyResult returning on accept without a write
EntryAcceptDropped(ev) ==
    IF ev.kind = "result"
    THEN IF ev.type = "autofix"
         THEN IF ev.error # None THEN "fail_update" ELSE "afx_get"
         ELSE IF ev.error # None THEN "fail_update"
         ELSE IF ev.type = "verify" /\ ev.result.status # None
         THEN CASE ev.result.status = "hard_fail" -> "fail_update"
                [] ev.result.status = "soft_fail" -> "soft_get"
                [] OTHER -> "ret"
         ELSE "complete_update"
    ELSE IF ev.type = "autofix"
         THEN IF ev.status = "failed" THEN "fail_update" ELSE "ret"
         ELSE IF ev.status = "running" THEN "run_update"
         ELSE IF ev.status = "failed" THEN "fail_update"
         ELSE "ret"

\* a cap on the repair loop: the soft_fail of a re-run is taken as an accept
EntrySoftFailCapped(ev) ==
    IF ev.kind = "result"
    THEN IF ev.type = "autofix"
         THEN IF ev.error # None THEN "fail_update" ELSE "afx_get"
         ELSE IF ev.error # None THEN "fail_update"
         ELSE IF ev.type = "verify" /\ ev.result.status # None
         THEN CASE ev.result.status = "accept" -> "complete_update"
                [] ev.result.status = "hard_fail" -> "fail_update"
                [] ev.result.status = "soft_fail" -> IF ev.job[2] > 1 THEN "complete_update" ELSE "soft_get"
                [] OTHER -> "ret"
         ELSE "complete_update"
    ELSE IF ev.type = "autofix"
         THEN IF ev.status = "failed" THEN "fail_update" ELSE "ret"
         ELSE IF ev.status = "running" THEN "run_update"
         ELSE IF ev.status = "failed" THEN "fail_update"
         ELSE "ret"

\* where handleWorkerResult / handleWorkerProgress go for an event
Entry(ev) ==
    IF ev.kind = "result"
    THEN IF ev.type = "autofix"
         THEN IF ev.error # None THEN "fail_update" ELSE "afx_get"
         ELSE IF ev.error # None THEN "fail_update"
         ELSE IF ev.type = "verify" /\ ev.result.status # None
         THEN CASE ev.result.status = "accept" -> "complete_update"
                [] ev.result.status = "hard_fail" -> "fail_update"
                [] ev.result.status = "soft_fail" -> "soft_get"
                [] OTHER -> "ret"
         ELSE "complete_update"
    ELSE IF ev.type = "autofix"
         THEN IF ev.status = "failed" THEN "fail_update" ELSE "ret"
         ELSE IF ev.status = "running" THEN "run_update"
         ELSE IF ev.status = "failed" THEN "fail_update"
         ELSE "ret"

\* hard_fail written without the draft
FailFieldsNoDraft(ev) ==
    IF ev.type = "autofix"
    THEN [NoFields EXCEPT !.error = Coalesce(ev.error, "AutoFix failed")]
    ELSE IF ev.kind = "result" /\ ev.error = None
    THEN [NoFields EXCEPT !.error = "Verifier hard fail"]
    ELSE [NoFields EXCEPT !.error = ev.error]

\* an autofix failure written with the default text whatever the event says
FailFieldsDefaultError(ev) ==
    IF ev.type = "autofix"
    THEN [NoFields EXCEPT !.error = "AutoFix failed"]
    ELSE IF ev.kind = "result" /\ ev.error = None
    THEN [NoFields EXCEPT !.error = "Verifier hard fail", !.result = Draft(ev.result.draft)]
    ELSE [NoFields EXCEPT !.error = ev.error]

\* the fields written together with status "failed"
FailFields(ev) ==
    IF ev.type = "autofix"
    THEN [NoFields EXCEPT !.error = Coalesce(ev.error, "AutoFix failed")]
    ELSE IF ev.kind = "result" /\ ev.error = None
    THEN [NoFields EXCEPT !.error = "Verifier hard fail", !.result = Draft(ev.result.draft)]
    ELSE [NoFields EXCEPT !.error = ev.error]

\* accept storing the whole verdict instead of its draft
CompleteFieldsVerdict(ev) == [NoFields EXCEPT !.result = ev.result]

\* the fields written together with status "completed"
CompleteFields(ev) ==
    IF ev.type = "verify" /\ ev.result.status # None
    THEN [NoFields EXCEPT !.result = Draft(ev.result.draft)]
    ELSE [NoFields EXCEPT !.result = ev.result]

\* soft_fail stashing the draft and the patches but not the violations
SoftMetadataNoViolations(task, verifyResult) ==
    [task.metadata EXCEPT !.draft = verifyResult.draft,
                          !.pendingPatches = verifyResult.patches]

\* the metadata handleVerifyResult stashes on soft_fail
SoftMetadata(task, verifyResult) ==
    [task.metadata EXCEPT !.draft = verifyResult.draft,
                          !.pendingPatches = verifyResult.patches,
                          !.violations = verifyResult.violations]

\* autofix success that leaves the stashed patches in place
AutofixMetadataKeepsPatches(task, result) ==
    [task.metadata EXCEPT !.draft = Coalesce(result.draft, task.metadata.draft),
                          !.violations = None]

\* the metadata handleAutofixSuccess writes back
AutofixMetadata(task, result) ==
    [task.metadata EXCEPT !.draft = Coalesce(result.draft, task.metadata.draft),
                          !.pendingPatches = None,
                          !.violations = None]


----------------------------------------------------------------------------
(* Steps of the dispatcher: one action per awaited store or queue call *)

Proc(h) == procs[h]
Goto(h, pc) == procs' = [procs EXCEPT ![h].pc = pc]

\* the loop of enqueueReadyTasks: take the next listed task or return
NextTask(p) ==
    IF p.ready = {} THEN {[p EXCEPT !.pc = "ret"]}
    ELSE {[p EXCEPT !.pc = "payload", !.task = t, !.ready = p.ready \ {t}] : t \in p.ready}

\* a call may begin next to a call in flight MaxOverlaps times
Busy(h) == \E k \in DOMAIN procs \ {h} : procs[k].op # "idle"
Begin(h) ==
    /\ Busy(h) => overlaps < MaxOverlaps
    /\ overlaps' = IF Busy(h) THEN overlaps + 1 ELSE overlaps

\* schedule(projectId, dag): entry, with reset = true
Schedule(h) ==
    /\ \A k \in DOMAIN procs : procs[k].op = "idle"
    /\ store = EmptyStore /\ JobRefs = {} /\ Len(dag.nodes) > 0
    /\ procs' = [procs EXCEPT ![h] = [Idle EXCEPT !.op = "schedule", !.pc = "clear"]]
    /\ UNCHANGED <<taskState, project, crashes, plan, dag, store, jobs, events, marked, listed, overlaps>>

\* schedule: await clearProject
Clear(h) ==
    /\ Proc(h).pc = "clear"
    /\ store' = ClearProject(store)
    /\ Goto(h, "insert")
    /\ UNCHANGED <<taskState, project, crashes, plan, dag, jobs, events, marked, listed, overlaps>>

\* persistDag: await insert(payload)
Insert(h) ==
    /\ Proc(h).pc = "insert"
    /\ store' = InsertNodes(store, dag.nodes)
    /\ procs' = [procs EXCEPT ![h].edges = dag.edges,
                              ![h].pc = IF dag.edges = <<>> THEN "list" ELSE "edge_get"]
    /\ UNCHANGED <<taskState, project, crashes, plan, dag, jobs, events, marked, listed, overlaps>>

\* addDependent: await select("dependents")
EdgeGet(h) ==
    /\ Proc(h).pc = "edge_get"
    /\ procs' = [procs EXCEPT ![h].task = GetTask(store, Head(Proc(h).edges).from),
                              ![h].pc = "edge_put"]
    /\ UNCHANGED <<taskState, project, crashes, plan, dag, store, jobs, events, marked, listed, overlaps>>

\* addDependent: await update({dependents}), then the next edge
EdgePut(h) ==
    /\ Proc(h).pc = "edge_put"
    /\ LET e == Head(Proc(h).edges)
       IN  store' = PutDependent(store, e.from, Proc(h).task.dependents, e.to)
    /\ procs' = [procs EXCEPT ![h].edges = Tail(@), ![h].task = NoTask,
                              ![h].pc = IF Tail(Proc(h).edges) = <<>> THEN "list" ELSE "edge_get"]
    /\ UNCHANGED <<taskState, project, crashes, plan, dag, jobs, events, marked, listed, overlaps>>

\* resume(projectId): entry of a stand-alone enqueueReadyTasks
Resume(h) ==
    /\ Proc(h).op = "idle"
    /\ store # EmptyStore
    /\ \A k \in DOMAIN procs : procs[k].op # "schedule"
    /\ Begin(h)
    /\ procs' = [procs EXCEPT ![h] = [Idle EXCEPT !.op = "resume", !.pc = "list", !.pre = store]]
    /\ UNCHANGED <<taskState, project, crashes, plan, dag, store, jobs, events, marked, listed>>

\* enqueueReadyTasks: await listReadyTasks
ListReady(h) ==
    /\ Proc(h).pc = "list"
    /\ procs' \in {[procs EXCEPT ![h] = q] : q \in NextTask([Proc(h) EXCEPT !.ready = ListReadyTasks(store)])}
    /\ UNCHANGED <<taskState, project, crashes, plan, dag, store, jobs, events, marked, listed, overlaps>>

\* enqueueTask: await buildJobPayload
BuildPayload(h) ==
    /\ Proc(h).pc = "payload"
    /\ procs' = [procs EXCEPT ![h].payload = BuildJobPayload(store, Proc(h).task),
                              ![h].pc = "add"]
    /\ UNCHANGED <<taskState, project, crashes, plan, dag, store, jobs, events, marked, listed, overlaps>>

\* enqueueTask: await queue.add
QueueAdd(h) ==
    /\ Proc(h).pc = "add"
    /\ IsExtraJob(Proc(h).payload.nodeId) => ExtraJobs < MaxExtraJobs
    /\ jobs' = AddJob(jobs, ResolveQueue(Proc(h).task.type), Proc(h).payload)
    /\ procs' = [procs EXCEPT ![h].pc = "mark",
                              ![h].added = @ \cup {NewJobRef(jobs, ResolveQueue(Proc(h).task.type),
                                                             Proc(h).payload.nodeId)}]
    /\ UNCHANGED <<taskState, project, crashes, plan, dag, store, events, marked, listed, overlaps>>

\* enqueueTask: await updateStatus(running), then the next listed task
MarkRunning(h) ==
    /\ Proc(h).pc = "mark"
    /\ store' = UpdateStatus(store, Proc(h).task.nodeId, "running", NoFields)
    /\ procs' \in {[procs EXCEPT ![h] = q] : q \in NextTask(Proc(h))}
    /\ UNCHANGED <<taskState, project, crashes, plan, dag, jobs, events, marked, listed, overlaps>>

\* handleWorkerResult / handleWorkerProgress: entry for the oldest event
Handle(h) ==
    /\ Proc(h).op = "idle"
    /\ events # <<>>
    /\ LET ev == Head(events)
       IN  procs' = [procs EXCEPT ![h] = [Idle EXCEPT !.op = ev.kind, !.pc = Entry(ev), !.ev = ev,
                                                      !.pre = store]]
    /\ events' = Tail(events)
    /\ Begin(h)
    /\ UNCHANGED <<taskState, project, crashes, plan, dag, store, jobs, marked, listed>>

\* handleWorkerProgress: await updateStatus(running)
UpdateRunning(h) ==
    /\ Proc(h).pc = "run_update"
    /\ store' = UpdateStatus(store, Proc(h).ev.nodeId, "running", NoFields)
    /\ Goto(h, "ret")
    /\ UNCHANGED <<taskState, project, crashes, plan, dag, jobs, events, marked, listed, overlaps>>

\* await updateStatus(failed, {error}) of the failure branches
UpdateFailed(h) ==
    /\ Proc(h).pc = "fail_update"
    /\ store' = UpdateStatus(store, Proc(h).ev.nodeId, "failed", FailFields(Proc(h).ev))
    /\ marked' = marked \cup ({Proc(h).ev.nodeId} \cap DOMAIN store)
    /\ Goto(h, "fail_get")
    /\ UNCHANGED <<taskState, project, crashes, plan, dag, jobs, events, listed, overlaps>>

\* blockDependentsOnFailure: await getTask
GetDependents(h) ==
    /\ Proc(h).pc = "fail_get"
    /\ LET record == GetTask(store, Proc(h).ev.nodeId)
       IN  procs' = [procs EXCEPT ![h].task = record,
                                  ![h].pc = IF record = NoTask \/ Len(record.dependents) = 0
                                            THEN "ret" ELSE "fail_block"]
    /\ UNCHANGED <<taskState, project, crashes, plan, dag, store, jobs, events, marked, listed, overlaps>>

\* blockDependentsOnFailure: await markBlocked(record.dependents)
BlockDependents(h) ==
    /\ Proc(h).pc = "fail_block"
    /\ store' = MarkBlocked(store, Proc(h).task.dependents)
    /\ Goto(h, "ret")
    /\ UNCHANGED <<taskState, project, crashes, plan, dag, jobs, events, marked, listed, overlaps>>

\* await updateStatus(completed, {result}), then enqueueReadyTasks
UpdateCompleted(h) ==
    /\ Proc(h).pc = "complete_update"
    /\ store' = UpdateStatus(store, Proc(h).ev.nodeId, "completed", CompleteFields(Proc(h).ev))
    /\ Goto(h, "list")
    /\ UNCHANGED <<taskState, project, crashes, plan, dag, jobs, events, marked, listed, overlaps>>

\* handleVerifyResult, soft_fail: await getTask
SoftGet(h) ==
    /\ Proc(h).pc = "soft_get"
    /\ LET task == GetTask(store, Proc(h).ev.nodeId)
       IN  procs' = [procs EXCEPT ![h].task = task,
                                  ![h].pc = IF task = NoTask THEN "ret" ELSE "soft_update"]
    /\ UNCHANGED <<taskState, project, crashes, plan, dag, store, jobs, events, marked, listed, overlaps>>

\* handleVerifyResult, soft_fail: await updateStatus(blocked, {metadata, result})
SoftUpdate(h) ==
    /\ Proc(h).pc = "soft_update"
    /\ LET p == Proc(h)
       IN  store' = UpdateStatus(store, p.ev.nodeId, "blocked",
                        [NoFields EXCEPT !.hasMetadata = TRUE,
                                         !.metadata = SoftMetadata(p.task, p.ev.result),
                                         !.result = Draft(p.ev.result.draft)])
    /\ Goto(h, "soft_add")
    /\ UNCHANGED <<taskState, project, crashes, plan, dag, jobs, events, marked, listed, overlaps>>

\* handleVerifyResult, soft_fail: await queue.add on the autofixer queue
SoftAdd(h) ==
    /\ Proc(h).pc = "soft_add"
    /\ LET r == Proc(h).ev.result
       IN  jobs' = AddJob(jobs, "autofixer",
                        [NoPayload EXCEPT !.nodeId = Proc(h).ev.nodeId, !.draft = r.draft,
                                          !.patches = Coalesce(r.patches, "empty")])
    /\ procs' = [procs EXCEPT ![h].pc = "ret",
                              ![h].added = @ \cup {NewJobRef(jobs, "autofixer", Proc(h).ev.nodeId)}]
    /\ UNCHANGED <<taskState, project, crashes, plan, dag, store, events, marked, listed, overlaps>>

\* handleAutofixSuccess: await getTask
AfxGet(h) ==
    /\ Proc(h).pc = "afx_get"
    /\ LET task == GetTask(store, Proc(h).ev.nodeId)
       IN  procs' = [procs EXCEPT ![h].task = task,
                                  ![h].pc = IF task = NoTask THEN "ret" ELSE "afx_update"]
    /\ UNCHANGED <<taskState, project, crashes, plan, dag, store, jobs, events, marked, listed, overlaps>>

\* handleAutofixSuccess: await updateStatus(pending, {metadata, result})
AfxUpdate(h) ==
    /\ Proc(h).pc = "afx_update"
    /\ LET p == Proc(h)
       IN  store' = UpdateStatus(store, p.ev.nodeId, "pending",
                        [NoFields EXCEPT !.hasMetadata = TRUE,
                                         !.metadata = AutofixMetadata(p.task, p.ev.result),
                                         !.result = Draft(p.ev.result.draft)])
    /\ Goto(h, "afx_refresh")
    /\ UNCHANGED <<taskState, project, crashes, plan, dag, jobs, events, marked, listed, overlaps>>

\* handleAutofixSuccess: await getTask (refreshed), then enqueueTask
AfxRefresh(h) ==
    /\ Proc(h).pc = "afx_refresh"
    /\ LET refreshed == GetTask(store, Proc(h).ev.nodeId)
       IN  procs' = [procs EXCEPT ![h].task = refreshed,
                                  ![h].pc = IF refreshed = NoTask THEN "ret" ELSE "payload"]
    /\ UNCHANGED <<taskState, project, crashes, plan, dag, store, jobs, events, marked, listed, overlaps>>

\* the call returns; the job whose terminal event it handled is done with
Return(h) ==
    /\ Proc(h).pc = "ret"
    /\ procs' = [procs EXCEPT ![h] = Idle]
    /\ jobs' = IF IsTerminal(Proc(h).ev)
               THEN SetJobState(jobs, Proc(h).ev.job,
                        IF IsDuplicate(Proc(h).ev) THEN "redone" ELSE "handled")
               ELSE jobs
    /\ UNCHANGED <<taskState, project, crashes, plan, dag, store, events, marked, listed, overlaps>>

----------------------------------------------------------------------------
(* Steps of the workers *)

\* a worker takes a waiting job: "active" is emitted
WorkerActive(j) ==
    /\ JobAt(j).state = "waiting"
    /\ jobs' = SetJobState(jobs, j, "active")
    /\ events' = Append(events, ProgressEvent(j, "running", None))
    /\ UNCHANGED <<taskState, project, crashes, plan, dag, store, procs, marked, listed, overlaps>>

\* the processor returns: "completed" is emitted with its result
WorkerCompleted(j) ==
    /\ JobAt(j).state = "active"
    /\ \E r \in WorkerResults(JobAt(j)) :
          /\ r.status = "soft_fail" => SoftFailsSoFar < MaxSoftFails
          /\ events' = Append(events, ResultEvent(j, r))
          /\ jobs' = SetJobOut(jobs, j, r)
    /\ UNCHANGED <<taskState, project, crashes, plan, dag, store, procs, marked, listed, overlaps>>

\* the processor throws: "failed" is emitted with the error message
WorkerFailed(j) ==
    /\ JobAt(j).state = "active"
    /\ events' = Append(events, ProgressEvent(j, "failed", "boom"))
    /\ jobs' = SetJobState(jobs, j, "finished")
    /\ UNCHANGED <<taskState, project, crashes, plan, dag, store, procs, marked, listed, overlaps>>

\* the failure reaches the dispatcher as a result event carrying the error
WorkerError(j) ==
    /\ JobAt(j).state = "active"
    /\ events' = Append(events, ErrorResultEvent(j, "boom"))
    /\ jobs' = SetJobState(jobs, j, "finished")
    /\ UNCHANGED <<taskState, project, crashes, plan, dag, store, procs, marked, listed, overlaps>>

----------------------------------------------------------------------------
(* Specifications *)

Outlines ==
    { << OutlineEntry("1", FALSE), OutlineEntry("2", TRUE) >> }

Dags == {BuildDag(o, embed, FALSE) : o \in Outlines, embed \in BOOLEAN}

OutlinesConc ==
    { << OutlineEntry("1", TRUE) >>,
      << OutlineEntry("1", FALSE) >> }

DagsConc == {BuildDag(o, FALSE, FALSE) : o \in OutlinesConc}

NotListed == [called |-> FALSE, rows |-> {}]
NoPlan == [outline |-> <<>>, assetsIndex |-> <<>>, built |-> FALSE]

InitWith(slots, dags) ==
    /\ plan = NoPlan
    /\ dag \in dags
    /\ store = EmptyStore
    /\ jobs = [name \in {n.id : n \in SeqToSet(dag.nodes)} \X {"task", "autofix"} |-> <<>>]
    /\ events = <<>>
    /\ procs = [h \in slots |-> Idle]
    /\ marked = {}
    /\ listed = NotListed
    /\ overlaps = 0
    /\ crashes = 0
    /\ taskState = EmptyTable /\ project = None

Step(h) ==
    \/ Schedule(h) \/ Clear(h) \/ Insert(h) \/ EdgeGet(h) \/ EdgePut(h)
    \/ Resume(h) \/ ListReady(h) \/ BuildPayload(h) \/ QueueAdd(h) \/ MarkRunning(h)
    \/ Handle(h) \/ UpdateRunning(h) \/ UpdateFailed(h) \/ GetDependents(h)
    \/ BlockDependents(h) \/ UpdateCompleted(h)
    \/ SoftGet(h) \/ SoftUpdate(h) \/ SoftAdd(h)
    \/ AfxGet(h) \/ AfxUpdate(h) \/ AfxRefresh(h)
    \/ Return(h)

Work(j) == WorkerActive(j) \/ WorkerCompleted(j) \/ WorkerFailed(j) \/ WorkerError(j)
WorkConc(j) == WorkerActive(j) \/ WorkerCompleted(j) \/ WorkerFailed(j)

Next ==
    \/ \E h \in DOMAIN procs : Step(h)
    \/ \E j \in JobRefs : Work(j)

\* one dispatcher call at a time: each handler runs to completion
Init == InitWith({1}, Dags)
Spec == Init /\ [][Next]_vars

\* two dispatcher calls in flight, interleaved at their awaits
InitConc == InitWith({1, 2}, DagsConc)
NextConc ==
    \/ \E h \in DOMAIN procs : Step(h)
    \/ \E j \in JobRefs : WorkConc(j)
SpecConc == InitConc /\ [][NextConc]_vars

----------------------------------------------------------------------------
(* At-least-once delivery: the completed event of a job whose first delivery
   has been handled is delivered once more *)

Redeliver(j) ==
    /\ JobAt(j).state = "handled"
    /\ JobAt(j).out # NoValue
    /\ Redelivered < MaxRedeliveries
    /\ events' = Append(events, ResultEvent(j, JobAt(j).out))
    /\ jobs' = SetJobState(jobs, j, "again")
    /\ UNCHANGED <<taskState, project, crashes, plan, dag, store, procs, marked, listed, overlaps>>

\* the completed event of a job that was not a verify or autofix job, or of a
\* verify job that returned accept
RedeliverCompleted(j) ==
    /\ JobAt(j).queue # "autofixer"
    /\ JobAt(j).queue = "verifier" => JobAt(j).out.status = "accept"
    /\ Redeliver(j)

DagsDup == {BuildDag(<< OutlineEntry("1", FALSE) >>, FALSE, FALSE),
            BuildDag(<< OutlineEntry("1", TRUE) >>, FALSE, FALSE)}
InitDup == InitWith({1}, DagsDup)

NextDup ==
    \/ \E h \in DOMAIN procs : Step(h)
    \/ \E j \in JobRefs : Work(j)
    \/ \E j \in JobRefs : Redeliver(j)
SpecDup == InitDup /\ [][NextDup]_vars

NextDupCompleted ==
    \/ \E h \in DOMAIN procs : Step(h)
    \/ \E j \in JobRefs : Work(j)
    \/ \E j \in JobRefs : RedeliverCompleted(j)
SpecDupCompleted == InitDup /\ [][NextDupCompleted]_vars

----------------------------------------------------------------------------
(* Resume after a restart: the store holds what the stopped process wrote
   last, no dispatcher call is in flight, and resume() is called *)

\* the rows of a persisted DAG with the statuses a stopped run left behind
WithStatuses(st, statusOf) == [id \in DOMAIN st |-> [st[id] EXCEPT !.status = statusOf[id]]]
CrashStores(d) ==
    {WithStatuses(PersistDag(EmptyStore, d), statusOf) :
        statusOf \in [{d.nodes[i].id : i \in 1..Len(d.nodes)} -> Statuses]}

InitResume ==
    /\ plan = NoPlan
    /\ dag \in DagsDup
    /\ store \in CrashStores(dag)
    /\ jobs = [name \in {n.id : n \in SeqToSet(dag.nodes)} \X {"task", "autofix"} |-> <<>>]
    /\ events = <<>>
    /\ procs = [h \in {1} |-> Idle]
    /\ marked = {}
    /\ listed = NotListed
    /\ overlaps = 0
    /\ crashes = 0
    /\ taskState = EmptyTable /\ project = None

NextResume ==
    \E h \in DOMAIN procs :
        \/ Resume(h) \/ ListReady(h) \/ BuildPayload(h) \/ QueueAdd(h)
        \/ MarkRunning(h) \/ Return(h)
SpecResume == InitResume /\ [][NextResume]_vars

----------------------------------------------------------------------------
(* schedule() on a project that holds the rows of an earlier schedule *)

\* the DAG of the earlier schedule: one fixed chapter, and the sink
EarlierDag == BuildDag(<< OutlineEntry("3", TRUE) >>, FALSE, FALSE)

\* schedule(projectId, dag) with reset = true on whatever the project holds
ScheduleAgain(h) ==
    /\ \A k \in DOMAIN procs : procs[k].op = "idle"
    /\ JobRefs = {} /\ Len(dag.nodes) > 0
    /\ procs' = [procs EXCEPT ![h] = [Idle EXCEPT !.op = "schedule", !.pc = "clear", !.pre = store]]
    /\ UNCHANGED <<taskState, project, crashes, plan, dag, store, jobs, events, marked, listed, overlaps>>

InitSchedule ==
    /\ plan = NoPlan
    /\ dag \in Dags
    /\ store \in {EmptyStore} \cup CrashStores(EarlierDag)
    /\ jobs = [name \in {n.id : n \in SeqToSet(dag.nodes)} \X {"task", "autofix"} |-> <<>>]
    /\ events = <<>>
    /\ procs = [h \in {1} |-> Idle]
    /\ marked = {}
    /\ listed = NotListed
    /\ overlaps = 0
    /\ crashes = 0
    /\ taskState = EmptyTable /\ project = None

NextSchedule ==
    \/ \E h \in DOMAIN procs :
          \/ ScheduleAgain(h) \/ Clear(h) \/ Insert(h) \/ EdgeGet(h) \/ EdgePut(h)
          \/ ListReady(h) \/ BuildPayload(h) \/ QueueAdd(h) \/ MarkRunning(h) \/ Return(h)
    \/ \E j \in JobRefs : WorkerActive(j)
SpecSchedule == InitSchedule /\ [][NextSchedule]_vars

----------------------------------------------------------------------------
(* A run in which every job succeeds and every verdict is accept *)

\* the processor returns; the verifier returns accept
WorkerSucceeds(j) ==
    /\ JobAt(j).state = "active"
    /\ \E r \in {x \in WorkerResults(JobAt(j)) : x.status \notin {"hard_fail", "soft_fail"}} :
          /\ events' = Append(events, ResultEvent(j, r))
          /\ jobs' = SetJobOut(jobs, j, r)
    /\ UNCHANGED <<taskState, project, crashes, plan, dag, store, procs, marked, listed, overlaps>>

StepLive(h) ==
    \/ Schedule(h) \/ Clear(h) \/ Insert(h) \/ EdgeGet(h) \/ EdgePut(h)
    \/ ListReady(h) \/ BuildPayload(h) \/ QueueAdd(h) \/ MarkRunning(h)
    \/ Handle(h) \/ UpdateRunning(h) \/ UpdateCompleted(h)
    \/ Return(h)

HandlerLive == \E h \in DOMAIN procs : StepLive(h)
WorkerLive == \E j \in JobRefs : WorkerActive(j) \/ WorkerSucceeds(j)

InitLive == InitWith({1}, Dags)
NextLive == HandlerLive \/ WorkerLive

\* the dispatcher handles every event it is given, one at a time, and a
\* BullMQ worker processes every job that waits in its queue
SpecLive == InitLive /\ [][NextLive]_vars /\ WF_vars(HandlerLive) /\ WF_vars(WorkerLive)

----------------------------------------------------------------------------
(* A run in which jobs may fail, and every event is handled *)

Handler == \E h \in DOMAIN procs : Step(h)
Handling == \E h \in DOMAIN procs : Handle(h)
Worker == \E j \in JobRefs : Work(j)

\* a dispatcher call in flight runs on to its return; an emitted event gets
\* its listener call, however often resume() is called in between; a BullMQ
\* worker processes every job that waits in its queue
SpecFair == Init /\ [][Next]_vars /\ WF_vars(Handler) /\ SF_vars(Handling) /\ WF_vars(Worker)

----------------------------------------------------------------------------
(* The dispatcher process stopping between two awaited calls *)

\* the process stops while a call is between two of its store or queue
\* calls: the call is gone with the event it was handling; rows and queued
\* jobs stay as they are
Crash(h) ==
    /\ Proc(h).op # "idle" /\ Proc(h).pc # "ret"
    /\ crashes < MaxCrashes
    /\ crashes' = crashes + 1
    /\ procs' = [procs EXCEPT ![h] = Idle]
    /\ jobs' = IF IsTerminal(Proc(h).ev) THEN SetJobState(jobs, Proc(h).ev.job, "lost") ELSE jobs
    /\ UNCHANGED <<taskState, project, plan, dag, store, events, marked, listed, overlaps>>

InitCrash == InitWith({1}, DagsDup)
NextCrash ==
    \/ \E h \in DOMAIN procs : Step(h) \/ Crash(h)
    \/ \E j \in JobRefs : Work(j)
SpecCrash == InitCrash /\ [][NextCrash]_vars

----------------------------------------------------------------------------
(* Two projects on one task_state table: every call as a whole *)

Projects == {"p", "q"}

\* the DAGs of a one-chapter outline, fixed or generated: the same
\* assemble ids in both
ProjectDags ==
    {BuildDag(<< OutlineEntry("1", fixed) >>, FALSE, FALSE) : fixed \in BOOLEAN}

\* the node id of the direct updateStatus calls: one that both DAGs have
CancelledIds == {<<"assemble", "1">>}

\* the completed events of a job of the task's type: a result, or an error
ProjectResults(type) ==
    {[result |-> NoValue, error |-> "boom"]} \cup
    {[result |-> r, error |-> None] :
        r \in IF type = "verify"
              THEN {[Obj("verdict") EXCEPT !.status = verdict, !.draft = "d0", !.patches = "p1"] :
                        verdict \in {"accept", "hard_fail", "soft_fail"}}
              ELSE {Obj(type)}}

\* a call for projectId leaves the table as tb
ProjectCall(projectId, tb) ==
    /\ taskState' = tb
    /\ project' = projectId
    /\ UNCHANGED <<crashes, plan, dag, store, jobs, events, procs, marked, listed, overlaps>>

\* schedule(projectId, dag, {reset}); the insert is refused when a primary
\* key (project_id, node_id) is taken, and persistDag throws after the reset
ProjectSchedule(projectId, d, reset) ==
    LET cleared == IF reset THEN TableClearProject(taskState, projectId) ELSE taskState
    IN  IF \E i \in 1..Len(d.nodes) : <<projectId, d.nodes[i].id>> \in DOMAIN cleared
        THEN ProjectCall(projectId, cleared)
        ELSE ProjectCall(projectId,
                TableEnqueueReadyTasks(
                    TableAddDependents(TableInsertNodes(cleared, projectId, d.nodes),
                                       projectId, d.edges),
                    projectId))

\* clearProject(projectId) called directly
ProjectClear(projectId) ==
    /\ \E k \in DOMAIN taskState : k[1] = projectId
    /\ ProjectCall(projectId, TableClearProject(taskState, projectId))

\* updateStatus(projectId, nodeId, "cancelled") called directly, for a node
\* id that may have a row in the other project as well, or there only
ProjectCancel(projectId, nodeId) ==
    /\ \E k \in DOMAIN taskState : k[2] = nodeId /\ taskState[k].status # "cancelled"
    /\ ProjectCall(projectId, TableUpdateStatus(taskState, projectId, nodeId, "cancelled", NoFields))

\* markBlocked(projectId, nodeIds) called directly
ProjectMarkBlocked(projectId, nodeIds) ==
    /\ \E k \in DOMAIN taskState : Includes(nodeIds, k[2]) /\ taskState[k].status # "blocked"
    /\ ProjectCall(projectId, TableMarkBlocked(taskState, projectId, nodeIds))

\* the event of a job of the running task, as attachDispatcher builds it
ProjectEvent(k, kind, status, result, error) ==
    [NoEvent EXCEPT !.kind = kind, !.type = taskState[k].type, !.nodeId = k[2],
                    !.status = status, !.result = result, !.error = error]

\* updateStatus(failed), then blockDependentsOnFailure
TableFail(tb, projectId, ev) ==
    TableBlockDependents(TableUpdateStatus(tb, projectId, ev.nodeId, "failed", FailFields(ev)),
                         projectId, ev.nodeId)

\* handleWorkerProgress for an event of a running task of the project
ProjectProgress(k, status) ==
    /\ k \in DOMAIN taskState /\ taskState[k].status = "running"
    /\ LET ev == ProjectEvent(k, "progress", status, NoValue,
                              IF status = "failed" THEN "boom" ELSE None)
       IN  IF status = "running"
           THEN ProjectCall(k[1], TableUpdateStatus(taskState, k[1], k[2], "running", NoFields))
           ELSE ProjectCall(k[1], TableFail(taskState, k[1], ev))

\* handleWorkerResult with handleVerifyResult, as far as the table goes
ProjectResult(k, result, error) ==
    /\ k \in DOMAIN taskState /\ taskState[k].status = "running"
    /\ LET ev == ProjectEvent(k, "result", None, result, error)
           verdict == IF ev.type = "verify" THEN result.status ELSE None
       IN  IF error # None \/ verdict = "hard_fail"
           THEN ProjectCall(k[1], TableFail(taskState, k[1], ev))
           ELSE IF verdict = "soft_fail"
           THEN ProjectCall(k[1],
                    TableUpdateStatus(taskState, k[1], k[2], "blocked",
                        [NoFields EXCEPT !.hasMetadata = TRUE,
                                         !.metadata = SoftMetadata(taskState[k], result),
                                         !.result = Draft(result.draft)]))
           ELSE ProjectCall(k[1],
                    TableEnqueueReadyTasks(
                        TableUpdateStatus(taskState, k[1], k[2], "completed", CompleteFields(ev)),
                        k[1]))

\* handleAutofixSuccess / handleAutofixFailure for the autofix job of a
\* verify task under repair
ProjectAutofix(k, ok) ==
    /\ k \in DOMAIN taskState
    /\ taskState[k].status = "blocked" /\ taskState[k].metadata.pendingPatches # None
    /\ LET result == [Obj("autofix") EXCEPT !.draft = ApplyPatch(taskState[k].metadata.draft)]
           ev == [NoEvent EXCEPT !.kind = "result", !.type = "autofix", !.nodeId = k[2],
                                 !.result = IF ok THEN result ELSE NoValue,
                                 !.error = IF ok THEN None ELSE "boom"]
           pending == TableUpdateStatus(taskState, k[1], k[2], "pending",
                        [NoFields EXCEPT !.hasMetadata = TRUE,
                                         !.metadata = AutofixMetadata(taskState[k], result),
                                         !.result = Draft(result.draft)])
       IN  IF ok
           THEN ProjectCall(k[1], TableUpdateStatus(pending, k[1], k[2], "running", NoFields))
           ELSE ProjectCall(k[1], TableFail(taskState, k[1], ev))

\* no project has been scheduled yet
InitProjects == InitWith({1}, {BuildDag(<<>>, FALSE, FALSE)})

NextProjects ==
    \/ \E projectId \in Projects, d \in ProjectDags, reset \in BOOLEAN :
            ProjectSchedule(projectId, d, reset)
    \/ \E projectId \in Projects : ProjectClear(projectId)
    \/ \E projectId \in Projects, nodeId \in CancelledIds : ProjectCancel(projectId, nodeId)
    \/ \E projectId \in Projects : ProjectMarkBlocked(projectId, << DocumentId >>)
    \/ \E k \in DOMAIN taskState, status \in {"running", "failed"} : ProjectProgress(k, status)
    \/ \E k \in DOMAIN taskState :
            \E out \in ProjectResults(taskState[k].type) : ProjectResult(k, out.result, out.error)
    \/ \E k \in DOMAIN taskState, ok \in BOOLEAN : ProjectAutofix(k, ok)
SpecProjects == InitProjects /\ [][NextProjects]_vars

----------------------------------------------------------------------------
(* A job that never ends *)

\* the processor of an active job never returns and never throws: the job
\* emits no further event
WorkerHangs(j) ==
    /\ JobAt(j).state = "active"
    /\ jobs' = SetJobState(jobs, j, "hung")
    /\ UNCHANGED <<taskState, project, crashes, plan, dag, store, events, procs, marked, listed, overlaps>>

NextStall ==
    \/ \E h \in DOMAIN procs : Step(h)
    \/ \E j \in JobRefs : Work(j) \/ WorkerHangs(j)
SpecStall == Init /\ [][NextStall]_vars

----------------------------------------------------------------------------
(* The repair loop on its own: the verifier soft-fails every draft and every
   autofix job succeeds *)

LoopResults(job) ==
    IF job.queue = "verifier"
    THEN {r \in WorkerResults(job) : r.status = "soft_fail"}
    ELSE WorkerResults(job)

\* the processor returns; the verifier returns soft_fail
WorkerLoops(j) ==
    /\ JobAt(j).state = "active"
    /\ \E r \in LoopResults(JobAt(j)) :
          /\ r.status = "soft_fail" => SoftFailsSoFar < MaxRounds
          /\ events' = Append(events, ResultEvent(j, r))
          /\ jobs' = SetJobOut(jobs, j, r)
    /\ UNCHANGED <<taskState, project, crashes, plan, dag, store, procs, marked, listed, overlaps>>

StepLoop(h) ==
    \/ Schedule(h) \/ Clear(h) \/ Insert(h) \/ EdgeGet(h) \/ EdgePut(h)
    \/ Resume(h) \/ ListReady(h) \/ BuildPayload(h) \/ QueueAdd(h) \/ MarkRunning(h)
    \/ Handle(h) \/ UpdateRunning(h) \/ UpdateCompleted(h)
    \/ SoftGet(h) \/ SoftUpdate(h) \/ SoftAdd(h)
    \/ AfxGet(h) \/ AfxUpdate(h) \/ AfxRefresh(h)
    \/ Return(h)

DagsLoop == {BuildDag(<< OutlineEntry("1", FALSE) >>, embed, FALSE) : embed \in BOOLEAN}

InitLoop == InitWith({1}, DagsLoop)
NextLoop ==
    \/ \E h \in DOMAIN procs : StepLoop(h)
    \/ \E j \in JobRefs : WorkerActive(j)
    \/ \E j \in JobRefs : WorkerLoops(j)
SpecLoop == InitLoop /\ [][NextLoop]_vars

----------------------------------------------------------------------------
(* The planner on its own: buildDag(context) *)

ChapterNumbers == {"1", "2", "1.1"}

\* the outline nodes of at most `depth` levels; a node has at most one child
RECURSIVE OutlineNodes(_)
OutlineNodes(depth) ==
    LET leaves == {OutlineNode(num, fixed, <<>>) : num \in ChapterNumbers, fixed \in BOOLEAN}
    IN  IF depth <= 1 THEN leaves
        ELSE leaves \cup {OutlineNode(num, fixed, <<child>>) :
                            num \in ChapterNumbers, fixed \in BOOLEAN,
                            child \in OutlineNodes(depth - 1)}

\* the outlines: none, one chapter of full depth, MaxWidth chapters without
\* children, or a chapter with at most one child followed by a second chapter
PlanOutlines ==
    {<<>>} \cup {<<n>> : n \in OutlineNodes(MaxDepth)}
           \cup [1..MaxWidth -> OutlineNodes(1)]
           \cup {<<n, m>> : n \in OutlineNodes(2), m \in OutlineNodes(1)}

PlanAssets ==
    {<<>>, << Asset(TRUE, FALSE), Asset(FALSE, TRUE) >>}
        \cup {<< Asset(embed, table) >> : embed \in BOOLEAN, table \in BOOLEAN}

EmptyDag == [nodes |-> <<>>, edges |-> <<>>]

\* const dag = this.planner.buildDag(context)
BuildPlan ==
    /\ ~plan.built
    /\ dag' = BuildDag(FlattenOutline(plan.outline),
                       HasEmbedReady(plan.assetsIndex), HasTableReady(plan.assetsIndex))
    /\ plan' = [plan EXCEPT !.built = TRUE]
    /\ UNCHANGED <<taskState, project, crashes, store, jobs, events, procs, marked, listed, overlaps>>

InitPlan ==
    /\ plan \in [outline : PlanOutlines, assetsIndex : PlanAssets, built : {FALSE}]
    /\ dag = EmptyDag
    /\ store = EmptyStore
    /\ jobs = [name \in {} |-> <<>>]
    /\ events = <<>>
    /\ procs = [h \in {1} |-> Idle]
    /\ marked = {}
    /\ listed = NotListed
    /\ overlaps = 0
    /\ crashes = 0
    /\ taskState = EmptyTable /\ project = None

NextPlan == BuildPlan
SpecPlan == InitPlan /\ [][NextPlan]_vars

\* outlines as a caller may hand them over: chapter_number or title may be
\* missing (None: the template literal renders it as "undefined")
MalformedNodes ==
    {[OutlineNode(num, fixed, <<>>) EXCEPT !.title = title] :
        num \in {"1", "2", None}, fixed \in BOOLEAN, title \in {"title", None}}
MalformedOutlines ==
    {<<n>> : n \in MalformedNodes}
        \cup {<<n, m>> : n \in MalformedNodes, m \in MalformedNodes}
        \cup {<<[n EXCEPT !.children = <<m>>]>> : n \in MalformedNodes, m \in MalformedNodes}

InitPlanMalformed ==
    /\ plan \in [outline : MalformedOutlines, assetsIndex : PlanAssets, built : {FALSE}]
    /\ dag = EmptyDag
    /\ store = EmptyStore
    /\ jobs = [name \in {} |-> <<>>]
    /\ events = <<>>
    /\ procs = [h \in {1} |-> Idle]
    /\ marked = {}
    /\ listed = NotListed
    /\ overlaps = 0
    /\ crashes = 0
    /\ taskState = EmptyTable /\ project = None
SpecPlanMalformed == InitPlanMalformed /\ [][NextPlan]_vars

\* outlines whose chapter numbers repeat or collide with the sink's id
CollidingNodes ==
    {OutlineNode(num, fixed, <<>>) : num \in {"1", "document"}, fixed \in BOOLEAN}
CollidingOutlines ==
    {<<n>> : n \in CollidingNodes} \cup {<<n, m>> : n \in CollidingNodes, m \in CollidingNodes}

InitPlanColliding ==
    /\ plan \in [outline : CollidingOutlines, assetsIndex : PlanAssets, built : {FALSE}]
    /\ dag = EmptyDag
    /\ store = EmptyStore
    /\ jobs = [name \in {} |-> <<>>]
    /\ events = <<>>
    /\ procs = [h \in {1} |-> Idle]
    /\ marked = {}
    /\ listed = NotListed
    /\ overlaps = 0
    /\ crashes = 0
    /\ taskState = EmptyTable /\ project = None
SpecPlanColliding == InitPlanColliding /\ [][NextPlan]_vars

----------------------------------------------------------------------------
(* The store on its own: direct calls of its operations *)

\* a DAG as a caller of persistDag may hand it over: the second node names
\* a dependency that is not a node of the DAG
DanglingDag ==
    [nodes |-> << Node(<<"prepare", "1">>, "prepare", <<>>),
                  Node(<<"write", "1">>, "write", << <<"prepare", "1">>, <<"retrieve", "1">> >>) >>,
     edges |-> << Edge(<<"prepare", "1">>, <<"write", "1">>) >>]

StoreDags == {BuildDag(<< OutlineEntry("1", TRUE) >>, FALSE, FALSE), DanglingDag}

StorePersist ==
    /\ store = EmptyStore
    /\ store' = PersistDag(store, dag)
    /\ listed' = NotListed
    /\ UNCHANGED <<taskState, project, crashes, plan, dag, jobs, events, procs, marked, overlaps>>

StoreUpdate(nodeId, status) ==
    /\ store' = UpdateStatus(store, nodeId, status, NoFields)
    /\ listed' = NotListed
    /\ UNCHANGED <<taskState, project, crashes, plan, dag, jobs, events, procs, marked, overlaps>>

StoreBlock(nodeId) ==
    /\ store' = MarkBlocked(store, store[nodeId].dependents)
    /\ listed' = NotListed
    /\ UNCHANGED <<taskState, project, crashes, plan, dag, jobs, events, procs, marked, overlaps>>

StoreList ==
    /\ listed' = [called |-> TRUE, rows |-> ListReadyTasks(store)]
    /\ UNCHANGED <<taskState, project, crashes, plan, dag, store, jobs, events, procs, marked, overlaps>>

StoreClear ==
    /\ store # EmptyStore
    /\ store' = ClearProject(store)
    /\ listed' = NotListed
    /\ UNCHANGED <<taskState, project, crashes, plan, dag, jobs, events, procs, marked, overlaps>>

\* the fields arguments of updateStatus: none, each of result, error,
\* retries, metadata alone, and all of them
UpdateFields ==
    {NoFields,
     [NoFields EXCEPT !.result = Obj("r")],
     [NoFields EXCEPT !.error = "boom"],
     [NoFields EXCEPT !.retries = 1],
     [NoFields EXCEPT !.hasMetadata = TRUE, !.metadata = [NoMetadata EXCEPT !.draft = "d0"]],
     [result |-> Obj("r"), error |-> "boom", retries |-> 1, hasMetadata |-> TRUE,
      metadata |-> [NoMetadata EXCEPT !.draft = "d0"]]}

\* the statuses the dispatcher writes
UpdateStatuses == {"running", "completed", "failed"}

\* a node id that has no row
MissingId == <<"verify", "9">>

\* updateStatus(projectId, nodeId, status, fields) called directly
StoreUpdateFields(nodeId, status, fields) ==
    /\ store # EmptyStore
    /\ store' = UpdateStatus(store, nodeId, status, fields)
    /\ listed' = NotListed
    /\ UNCHANGED <<taskState, project, crashes, plan, dag, jobs, events, procs, marked, overlaps>>

InitUpdate == InitWith({1}, {DanglingDag})
NextUpdate ==
    \/ StorePersist
    \/ \E nodeId \in DOMAIN store \cup {MissingId}, status \in UpdateStatuses, fields \in UpdateFields :
          StoreUpdateFields(nodeId, status, fields)
SpecUpdate == InitUpdate /\ [][NextUpdate]_vars

InitStore == InitWith({1}, StoreDags)
NextStore ==
    \/ StorePersist
    \/ \E nodeId \in DOMAIN store, status \in Statuses : StoreUpdate(nodeId, status)
    \/ \E nodeId \in DOMAIN store : StoreBlock(nodeId)
    \/ StoreList
    \/ StoreClear
SpecStore == InitStore /\ [][NextStore]_vars


----------------------------------------------------------------------------
(* Properties *)

Status(id) == store[id].status
Dependencies(id) == SeqToSet(store[id].dependencies)
Dependents(id) == SeqToSet(store[id].dependents)

\* every dependency id of the row belongs to a row with status completed
DepsCompleted(st, id) ==
    \A dep \in SeqToSet(st[id].dependencies) : dep \in DOMAIN st /\ st[dep].status = "completed"

\* the ids a direct listReadyTasks call returned
ListedIds == {r.nodeId : r \in listed.rows}

\* a job was added under the task's own job name in this step
Pushed(id) == Len(jobs'[<<id, "task">>]) > Len(jobs[<<id, "task">>])

\* jobs of the task that are waiting, active, or whose terminal event is not handled yet
Outstanding(id) ==
    {i \in 1..Len(jobs[<<id, "task">>]) :
        jobs[<<id, "task">>][i].state \in {"waiting", "active", "finished"}}

\* the tasks that depend on one of `ids`, directly or through other tasks
RECURSIVE Below(_)
Below(ids) ==
    LET more == {m \in DOMAIN store : Dependencies(m) \cap ids # {}}
    IN  IF more \subseteq ids THEN ids ELSE Below(ids \cup more)
DependOn(ids) == {m \in DOMAIN store : Dependencies(m) \cap Below(ids) # {}}

\* the calls at their return, by the event they handled
AtReturn(h) == procs[h].pc = "ret"
IsFailure(ev) ==
    \/ ev.kind = "progress" /\ ev.status = "failed"
    \/ ev.kind = "result" /\ ev.error # None
IsSuccess(ev) == ev.kind = "result" /\ ev.error = None

C2_PushedOnlyWithDepsCompleted ==
    [][\A id \in DOMAIN store : Pushed(id) => DepsCompleted(store, id)]_vars

\* C3: a task never has two jobs outstanding: from the push of a job until
\* its terminal event is handled no second job of the task is pushed.
C3_NoDoubleDispatch ==
    \A id \in DOMAIN store : Cardinality(Outstanding(id)) <= 1


\* C4: when a failure of a task other than autofix has been handled (a
\* failed progress event or a result event with an error), the task is
\* failed with the event's error and every task in its dependents is blocked.
C4_FailureMarksFailedAndBlocks ==
    \A h \in DOMAIN procs :
        LET ev == procs[h].ev IN
        (AtReturn(h) /\ IsFailure(ev) /\ ev.type # "autofix") =>
            /\ Status(ev.nodeId) = "failed"
            /\ store[ev.nodeId].error = ev.error
            /\ \A d \in Dependents(ev.nodeId) : Status(d) = "blocked"

C4_Witness ==
    \E h \in DOMAIN procs :
        LET ev == procs[h].ev IN
        /\ AtReturn(h) /\ ev.kind = "result" /\ ev.error # None /\ ev.type # "autofix"
        /\ Status(ev.nodeId) = "failed"
        /\ \E d \in Dependents(ev.nodeId) : procs[h].pre[d].status = "pending" /\ Status(d) = "blocked"

\* C5: after the failure of a write task has been handled, every task that
\* depends on it directly or transitively (verify, the chapter's assemble,
\* assemble:document) is blocked.
C5_WriteFailureBlocksTransitively ==
    \A h \in DOMAIN procs :
        LET ev == procs[h].ev IN
        (AtReturn(h) /\ IsFailure(ev) /\ ev.type = "write") =>
            \A m \in DependOn({ev.nodeId}) : Status(m) = "blocked"

\* C6: once a task has been marked failed, no task that depends on it
\* directly or transitively is returned by listReadyTasks or pushed to a
\* queue afterwards.
C6_NoDispatchBelowFailed ==
    [][\A m \in DependOn(marked) : ~Pushed(m) /\ ~IsReadyRow(store', m)]_vars


\* C5 as the code has it: the tasks in the failed task's own dependents
\* list are blocked, the tasks further down keep their status
C5_DirectDependentsOnly ==
    \E h \in DOMAIN procs :
        LET ev == procs[h].ev IN
        /\ AtReturn(h) /\ IsFailure(ev) /\ ev.type = "write"
        /\ \A d \in Dependents(ev.nodeId) : Status(d) = "blocked"
        /\ \E m \in DependOn({ev.nodeId}) : Status(m) = "pending"

IsAccepted(ev) ==
    /\ IsSuccess(ev) /\ ev.type # "autofix"
    /\ ev.type = "verify" => ev.result.status = "accept"

\* the dependents for which the task was the last dependency not completed
\* when the call began
UnlockedBy(h, id) ==
    {d \in Dependents(id) :
        /\ procs[h].pre[d].status = "pending"
        /\ \A dep \in Dependencies(d) \ {id} : procs[h].pre[dep].status = "completed"}

AddedFor(h, id) == {r \in procs[h].added : r[1] = <<id, "task">>}

\* C7: when a result without error has been handled for a task that is not
\* a verify task, or for a verify task with verdict accept, the task is
\* completed with the result (for verify: the draft) stored, and every
\* dependent it was the last missing dependency of has been pushed and is running.
C7_SuccessCompletesAndEnqueues ==
    \A h \in DOMAIN procs :
        LET ev == procs[h].ev IN
        (AtReturn(h) /\ IsAccepted(ev)) =>
            /\ Status(ev.nodeId) = "completed"
            /\ store[ev.nodeId].result =
                  IF ev.type = "verify" THEN Draft(ev.result.draft) ELSE ev.result
            /\ \A d \in UnlockedBy(h, ev.nodeId) :
                  /\ Status(d) = "running"
                  /\ Cardinality(AddedFor(h, d)) = 1
                  /\ AddedFor(h, d) \subseteq {<<<<d, "task">>, i>> : i \in Outstanding(d)}

C7_Witness ==
    \E h \in DOMAIN procs :
        LET ev == procs[h].ev IN
        /\ AtReturn(h) /\ IsAccepted(ev) /\ ev.type = "verify"
        /\ store[ev.nodeId].result = Draft("d0")
        /\ UnlockedBy(h, ev.nodeId) # {}
        /\ \A d \in UnlockedBy(h, ev.nodeId) : Status(d) = "running"

\* the last chapter to be assembled unlocks assemble:document
C7_WitnessDocument ==
    \E h \in DOMAIN procs :
        /\ AtReturn(h) /\ IsAccepted(procs[h].ev)
        /\ DocumentId \in UnlockedBy(h, procs[h].ev.nodeId)
        /\ Status(DocumentId) = "running"

IsVerdict(ev, status) == IsSuccess(ev) /\ ev.type = "verify" /\ ev.result.status = status

\* C8: when a verify result hard_fail has been handled, the verify task is
\* failed with the hard-fail error and the draft as its result, its
\* dependents are blocked, and the call has added no job.
C8_HardFail ==
    \A h \in DOMAIN procs :
        LET ev == procs[h].ev IN
        (AtReturn(h) /\ IsVerdict(ev, "hard_fail")) =>
            /\ Status(ev.nodeId) = "failed"
            /\ store[ev.nodeId].error = "Verifier hard fail"
            /\ store[ev.nodeId].result = Draft(ev.result.draft)
            /\ \A d \in Dependents(ev.nodeId) : Status(d) = "blocked"
            /\ procs[h].added = {}

C8_Witness ==
    \E h \in DOMAIN procs :
        LET ev == procs[h].ev IN
        /\ AtReturn(h) /\ IsVerdict(ev, "hard_fail")
        /\ Status(ev.nodeId) = "failed" /\ store[ev.nodeId].result = Draft("d0")
        /\ \E d \in Dependents(ev.nodeId) : Status(d) = "blocked"

\* C9: when a verify result soft_fail has been handled, the verify task is
\* blocked, its metadata holds the draft, the patches and the violations,
\* the call has added exactly one job, an autofix job for the node with
\* that draft and those patches, and the dependents keep their statuses.
C9_SoftFail ==
    \A h \in DOMAIN procs :
        LET ev == procs[h].ev IN
        (AtReturn(h) /\ IsVerdict(ev, "soft_fail")) =>
            /\ Status(ev.nodeId) = "blocked"
            /\ store[ev.nodeId].metadata.draft = ev.result.draft
            /\ store[ev.nodeId].metadata.pendingPatches = ev.result.patches
            /\ store[ev.nodeId].metadata.violations = ev.result.violations
            /\ Cardinality(procs[h].added) = 1
            /\ \A r \in procs[h].added :
                  /\ r[1] = <<ev.nodeId, "autofix">>
                  /\ JobAt(r).queue = "autofixer"
                  /\ JobAt(r).payload.draft = ev.result.draft
                  /\ JobAt(r).payload.patches = ev.result.patches
            /\ \A d \in Dependents(ev.nodeId) : Status(d) = procs[h].pre[d].status

C9_Witness ==
    \E h \in DOMAIN procs :
        LET ev == procs[h].ev IN
        /\ AtReturn(h) /\ IsVerdict(ev, "soft_fail")
        /\ Status(ev.nodeId) = "blocked"
        /\ store[ev.nodeId].metadata.pendingPatches = "p1"
        /\ \E d \in Dependents(ev.nodeId) : Status(d) = "pending"
        /\ \E r \in procs[h].added : JobAt(r).queue = "autofixer"

IsAutofixSuccess(ev) == ev.kind = "result" /\ ev.type = "autofix" /\ ev.error = None

\* C10: while a successful autofix result is handled the task is never
\* completed; after the status write it is pending until it is marked
\* running; at the return its metadata holds the patched draft and neither
\* pendingPatches nor violations, and the call has pushed the task to the
\* verifier queue once and left it running.
C10_AutofixSuccess ==
    \A h \in DOMAIN procs :
        LET ev == procs[h].ev IN
        IsAutofixSuccess(ev) =>
            /\ Status(ev.nodeId) # "completed"
            /\ procs[h].pc \in {"afx_refresh", "payload", "add", "mark"} =>
                  Status(ev.nodeId) = "pending"
            /\ AtReturn(h) =>
                  /\ store[ev.nodeId].metadata.draft = ev.result.draft
                  /\ store[ev.nodeId].metadata.pendingPatches = None
                  /\ store[ev.nodeId].metadata.violations = None
                  /\ Status(ev.nodeId) = "running"
                  /\ Cardinality(procs[h].added) = 1
                  /\ \A r \in procs[h].added :
                        r[1] = <<ev.nodeId, "task">> /\ JobAt(r).queue = "verifier"

C10_Witness ==
    \E h \in DOMAIN procs :
        LET ev == procs[h].ev IN
        /\ IsAutofixSuccess(ev) /\ AtReturn(h)
        /\ store[ev.nodeId].type = "verify"
        /\ procs[h].pre[ev.nodeId].metadata.pendingPatches = "p1"
        /\ store[ev.nodeId].metadata.draft = "d1"
        /\ Status(ev.nodeId) = "running"

\* C11: when an autofix failure has been handled (a failed progress event or
\* a result event with an error, of type autofix), the verify task named by
\* the event is failed with the autofix error, every task in its dependents
\* is blocked, and the store holds the same rows as before, none of them of
\* type autofix.
C11_AutofixFailure ==
    \A h \in DOMAIN procs :
        LET ev == procs[h].ev IN
        (AtReturn(h) /\ IsFailure(ev) /\ ev.type = "autofix") =>
            /\ store[ev.nodeId].type = "verify"
            /\ Status(ev.nodeId) = "failed"
            /\ store[ev.nodeId].error = Coalesce(ev.error, "AutoFix failed")
            /\ \A d \in Dependents(ev.nodeId) : Status(d) = "blocked"
            /\ DOMAIN store = DOMAIN procs[h].pre
            /\ \A id \in DOMAIN store : store[id].type # "autofix"
            /\ \A id \in DOMAIN store \ ({ev.nodeId} \cup Dependents(ev.nodeId)) :
                  store[id] = procs[h].pre[id]
            /\ procs[h].added = {}

C11_Witness ==
    \E h \in DOMAIN procs :
        LET ev == procs[h].ev IN
        /\ AtReturn(h) /\ ev.kind = "progress" /\ ev.status = "failed" /\ ev.type = "autofix"
        /\ procs[h].pre[ev.nodeId].status = "blocked"
        /\ Status(ev.nodeId) = "failed" /\ store[ev.nodeId].error = "boom"
        /\ \E d \in Dependents(ev.nodeId) :
              procs[h].pre[d].status = "pending" /\ Status(d) = "blocked"

\* the verify job is a re-run: the task has soft-failed and been repaired before
IsRerun(ev) ==
    /\ ev.job[2] > 1
    /\ \E i \in 1..Len(jobs[<<ev.nodeId, "autofix">>]) :
          jobs[<<ev.nodeId, "autofix">>][i].state = "handled"

\* C12: when the accept verdict of the re-run of a verify task that
\* soft-failed and was repaired by a successful autofix has been handled,
\* the verify task is completed and its assemble dependent has been pushed
\* once and is running.
C12_RepairedThenAccepted ==
    \A h \in DOMAIN procs :
        LET ev == procs[h].ev IN
        (AtReturn(h) /\ IsVerdict(ev, "accept") /\ IsRerun(ev)) =>
            /\ Status(ev.nodeId) = "completed"
            /\ \E d \in Dependents(ev.nodeId) : store[d].type = "assemble"
            /\ \A d \in Dependents(ev.nodeId) :
                  /\ Status(d) = "running"
                  /\ Cardinality(AddedFor(h, d)) = 1
                  /\ \A r \in AddedFor(h, d) : JobAt(r).queue = "assembler"

C12_Witness ==
    \E h \in DOMAIN procs :
        LET ev == procs[h].ev IN
        /\ AtReturn(h) /\ IsVerdict(ev, "accept") /\ IsRerun(ev)
        /\ Len(jobs[<<ev.nodeId, "task">>]) = 2 /\ Len(jobs[<<ev.nodeId, "autofix">>]) = 1
        /\ procs[h].pre[ev.nodeId].status = "running"
        /\ Status(ev.nodeId) = "completed"
        /\ \E d \in Dependents(ev.nodeId) : store[d].type = "assemble" /\ Status(d) = "running"

\* C13: the dispatcher caps the repair loop nowhere.  When every verdict is
\* soft_fail and every autofix job succeeds, no verify task is ever
\* completed or failed and no retries counter changes; every soft_fail,
\* whatever the number of rounds before it, adds one more autofix job, and
\* every autofix success pushes the verify task once more.
C13_NoCapOnRepairLoop ==
    /\ \A id \in DOMAIN store :
          /\ store[id].retries = 0
          /\ store[id].type = "verify" => Status(id) \notin {"completed", "failed"}
    /\ \A h \in DOMAIN procs :
          LET ev == procs[h].ev IN
          /\ (AtReturn(h) /\ IsVerdict(ev, "soft_fail")) =>
                /\ Len(jobs[<<ev.nodeId, "autofix">>]) = ev.job[2]
                /\ procs[h].added = {<<<<ev.nodeId, "autofix">>, ev.job[2]>>}
          /\ (AtReturn(h) /\ IsAutofixSuccess(ev)) =>
                /\ Len(jobs[<<ev.nodeId, "task">>]) = ev.job[2] + 1
                /\ procs[h].added = {<<<<ev.nodeId, "task">>, ev.job[2] + 1>>}
                /\ Status(ev.nodeId) = "running"

\* the loop has gone round as often as the verifier soft-failed
C13_Witness ==
    \E id \in DOMAIN store :
        /\ store[id].type = "verify"
        /\ Len(jobs[<<id, "autofix">>]) = MaxRounds
        /\ Len(jobs[<<id, "task">>]) = MaxRounds + 1
        /\ \A i \in 1..MaxRounds : jobs[<<id, "autofix">>][i].state = "handled"
        /\ Status(id) = "running" /\ store[id].retries = 0

\* the call handles the second delivery of a completed event
HandlesDuplicate(h) == procs[h].op = "result" /\ IsDuplicate(procs[h].ev)

\* C14: while and after the completed result event of a task is handled a
\* second time, every task record is as it was when the second delivery
\* began, the task is completed with the result of the first delivery, and
\* the call adds no job.
C14_CompletedTwiceIsIdempotent ==
    \A h \in DOMAIN procs :
        LET ev == procs[h].ev IN
        (HandlesDuplicate(h) /\ IsAccepted(ev)) =>
            /\ store = procs[h].pre
            /\ procs[h].added = {}
            /\ Status(ev.nodeId) = "completed"
            /\ store[ev.nodeId].result =
                  IF ev.type = "verify" THEN Draft(ev.result.draft) ELSE ev.result

C14_Witness ==
    \E h \in DOMAIN procs :
        LET ev == procs[h].ev IN
        /\ HandlesDuplicate(h) /\ IsAccepted(ev) /\ AtReturn(h)
        /\ ev.type = "write"
        /\ \E d \in Dependents(ev.nodeId) : Status(d) = "running" /\ Len(jobs[<<d, "task">>]) = 1
        /\ store = procs[h].pre

\* C15: a duplicate result event of any outcome handled for a task that is
\* already completed or failed changes no task record and adds no job.
C15_DuplicateIsNoOp ==
    \A h \in DOMAIN procs :
        (/\ AtReturn(h) /\ HandlesDuplicate(h)
         /\ procs[h].pre[procs[h].ev.nodeId].status \in {"completed", "failed"}) =>
            /\ store = procs[h].pre
            /\ procs[h].added = {}

\* the tasks that were pending with every dependency completed when the call began
ReadyBefore(h) ==
    {id \in DOMAIN procs[h].pre :
        procs[h].pre[id].status = "pending" /\ DepsCompleted(procs[h].pre, id)}

\* C16: when resume (enqueueReadyTasks) returns, it has pushed exactly one
\* job for each task that was pending with all dependencies completed and
\* left those tasks running; it has pushed no job for any other task and
\* every other task record is as it was.
C16_ResumeExact ==
    \A h \in DOMAIN procs :
        (AtReturn(h) /\ procs[h].op = "resume") =>
            /\ \A id \in ReadyBefore(h) :
                  /\ Cardinality(AddedFor(h, id)) = 1
                  /\ \A r \in AddedFor(h, id) : JobAt(r).queue = ResolveQueue(store[id].type)
                  /\ Status(id) = "running"
            /\ \A id \in DOMAIN store \ ReadyBefore(h) :
                  /\ AddedFor(h, id) = {}
                  /\ store[id] = procs[h].pre[id]
            /\ \A r \in procs[h].added : r[1][2] = "task"
            /\ DOMAIN store = DOMAIN procs[h].pre

C16_Witness ==
    \E h \in DOMAIN procs :
        /\ AtReturn(h) /\ procs[h].op = "resume"
        /\ Cardinality(ReadyBefore(h)) = 2
        /\ \A id \in ReadyBefore(h) : Status(id) = "running"
        /\ \E id \in DOMAIN store : procs[h].pre[id].status = "pending" /\ Status(id) = "pending"
        /\ {"completed", "blocked"} \subseteq {procs[h].pre[id].status : id \in DOMAIN store}

----------------------------------------------------------------------------
(* Properties of the planner *)

Flat == FlattenOutline(plan.outline)
NodeIds == {dag.nodes[i].id : i \in 1..Len(dag.nodes)}
NodesWithId(id) == {i \in 1..Len(dag.nodes) : dag.nodes[i].id = id}
NodeOf(id) == dag.nodes[CHOOSE i \in NodesWithId(id) : TRUE]
NodesOfChapter(num) == {id \in NodeIds : id[2] = num}
HasEdge(from, to) == \E i \in 1..Len(dag.edges) : dag.edges[i] = Edge(from, to)

\* chapter numbers are unique within the outline, as the data model has it
UniqueChapters == \A i, j \in 1..Len(Flat) : Flat[i].num = Flat[j].num => i = j

\* the nodes reached from `ids` by following dependencies
DepsOf(id) == UNION {SeqToSet(dag.nodes[i].dependencies) : i \in NodesWithId(id)}
RECURSIVE Reached(_)
Reached(ids) ==
    LET more == UNION {DepsOf(id) : id \in ids}
    IN  IF more \subseteq ids THEN ids ELSE Reached(ids \cup more)

\* C17: in the graph buildDag returns, following dependencies from a node
\* never leads back to that node, whatever the outline.
C17_Acyclic ==
    plan.built => \A id \in NodeIds : id \notin Reached(DepsOf(id))

\* a chapter nested two levels down, and the sink reaching its first stage
C17_Witness ==
    /\ plan.built
    /\ \E i \in 1..Len(plan.outline) :
          \E j \in 1..Len(plan.outline[i].children) :
             \E k \in 1..Len(plan.outline[i].children[j].children) :
                LET n == plan.outline[i].children[j].children[k]
                IN  ~n.fixed /\ <<"prepare", n.num>> \in Reached(DepsOf(DocumentId))
    /\ \A id \in NodeIds : id \notin Reached(DepsOf(id))

ShouldCreateRetrieve == HasEmbedReady(plan.assetsIndex) \/ HasTableReady(plan.assetsIndex)

\* C19: with no asset embed-ready or table-ready the DAG has no retrieve
\* node and every write node depends exactly on its chapter's prepare node;
\* otherwise every chapter without fixed content has a retrieve node that
\* depends on its prepare node, and its write node depends on the retrieve
\* node and not on prepare.
C19_RetrieveConditional ==
    plan.built =>
        IF ~ShouldCreateRetrieve
        THEN /\ \A id \in NodeIds : NodeOf(id).type # "retrieve" /\ id[1] # "retrieve"
             /\ \A id \in NodeIds :
                   NodeOf(id).type = "write" => NodeOf(id).dependencies = << <<"prepare", id[2]>> >>
        ELSE \A i \in 1..Len(Flat) :
                ~Flat[i].fixed =>
                    LET num == Flat[i].num IN
                    /\ <<"retrieve", num>> \in NodeIds
                    /\ NodeOf(<<"retrieve", num>>) =
                          Node(<<"retrieve", num>>, "retrieve", << <<"prepare", num>> >>)
                    /\ <<"prepare", num>> \in NodeIds
                    /\ <<"write", num>> \in NodeIds
                    /\ NodeOf(<<"write", num>>).dependencies = << <<"retrieve", num>> >>

\* retrieval switched on by a table-ready asset alone
C19_Witness ==
    /\ plan.built
    /\ ~HasEmbedReady(plan.assetsIndex) /\ HasTableReady(plan.assetsIndex)
    /\ \E i \in 1..Len(Flat) :
          /\ ~Flat[i].fixed
          /\ NodeOf(<<"write", Flat[i].num>>).dependencies = << <<"retrieve", Flat[i].num>> >>
    /\ \E i \in 1..Len(Flat) : Flat[i].fixed

\* retrieval switched off
C19_WitnessNoRetrieve ==
    /\ plan.built /\ ~ShouldCreateRetrieve
    /\ \E id \in NodeIds : NodeOf(id).type = "write"

\* C20: for an outline with at least one chapter, the dependencies of
\* assemble:document are exactly the ids of the per-chapter assemble nodes,
\* which are the ids assemble:<chapter> of the flattened outline nodes,
\* nested ones included; with unique chapter numbers there is one per
\* flattened node.
C20_DocumentSink ==
    (plan.built /\ Len(Flat) >= 1) =>
        /\ Cardinality(NodesWithId(DocumentId)) = 1
        /\ LET deps == NodeOf(DocumentId).dependencies IN
            /\ SeqToSet(deps) = {<<"assemble", Flat[i].num>> : i \in 1..Len(Flat)}
            /\ SeqToSet(deps) = {id \in NodeIds \ {DocumentId} : NodeOf(id).type = "assemble"}
            /\ UniqueChapters => Len(deps) = Len(Flat)

\* a parent, its child and its grandchild all feed the sink
C20_Witness ==
    /\ plan.built /\ UniqueChapters /\ Len(Flat) = 3 /\ Len(plan.outline) = 1
    /\ Len(NodeOf(DocumentId).dependencies) = 3
    /\ \A i \in 1..3 : Includes(NodeOf(DocumentId).dependencies, <<"assemble", Flat[i].num>>)

\* the flattened entries that have both a chapter number and a title
WellFormed(e) == e.num # None /\ e.title # None

\* C21: buildDag returns a DAG for every outline, and the DAG has no node
\* for an entry whose chapter number or title is missing, while every other
\* entry has its chapter's nodes.
C21_MalformedEntriesSkipped ==
    plan.built =>
        /\ \A id \in NodeIds \ {DocumentId} :
              \E i \in 1..Len(Flat) : WellFormed(Flat[i]) /\ Flat[i].num = id[2]
        /\ \A i \in 1..Len(Flat) :
              WellFormed(Flat[i]) => <<"assemble", Flat[i].num>> \in NodeIds

\* persistDag of a schedule() call has completed
Persisted(h) == procs[h].op = "schedule" /\ procs[h].pc = "list"

Occurrences(seq, x) == Cardinality({j \in 1..Len(seq) : seq[j] = x})

\* C22: when persistDag has completed on an empty project, the project
\* holds exactly one row per node of the DAG, pending and with the node's
\* type and dependencies; for every edge the target occurs exactly once in
\* the dependents of the source, dependents hold nothing else, and adding a
\* dependent that is present changes nothing.
C22_PersistDag ==
    \A h \in DOMAIN procs :
        Persisted(h) =>
            /\ DOMAIN store = {dag.nodes[i].id : i \in 1..Len(dag.nodes)}
            /\ \A i \in 1..Len(dag.nodes) :
                  LET row == store[dag.nodes[i].id] IN
                  /\ row.status = "pending"
                  /\ row.type = dag.nodes[i].type
                  /\ row.dependencies = dag.nodes[i].dependencies
                  /\ SeqToSet(row.dependents) =
                        {dag.edges[k].to : k \in {k \in 1..Len(dag.edges) :
                                                    dag.edges[k].from = dag.nodes[i].id}}
            /\ \A k \in 1..Len(dag.edges) :
                  /\ Occurrences(store[dag.edges[k].from].dependents, dag.edges[k].to) = 1
                  /\ AddDependent(store, dag.edges[k].from, dag.edges[k].to) = store

C22_Witness ==
    \E h \in DOMAIN procs :
        /\ Persisted(h)
        /\ Len(dag.edges) >= 6
        /\ store[<<"assemble", "1">>].dependents = << DocumentId >>
        /\ store[<<"assemble", "2">>].dependents = << DocumentId >>
        /\ Len(store[DocumentId].dependencies) = 2
        /\ \A id \in DOMAIN store : Status(id) = "pending"

\* what an updateStatus call may change and what it leaves alone
UpdateFrame(nodeId, status, fields) ==
    /\ DOMAIN store' = DOMAIN store
    /\ \A id \in DOMAIN store \ {nodeId} : store'[id] = store[id]
    /\ nodeId \in DOMAIN store =>
          /\ store'[nodeId].status = status
          /\ store'[nodeId].result =
                IF fields.result # NoValue THEN fields.result ELSE store[nodeId].result
          /\ store'[nodeId].error =
                IF fields.error # None THEN fields.error ELSE store[nodeId].error
          /\ store'[nodeId].retries =
                IF fields.retries # -1 THEN fields.retries ELSE store[nodeId].retries
          /\ store'[nodeId].metadata =
                IF fields.hasMetadata THEN fields.metadata ELSE store[nodeId].metadata
          /\ store'[nodeId].type = store[nodeId].type
          /\ store'[nodeId].dependencies = store[nodeId].dependencies
          /\ store'[nodeId].dependents = store[nodeId].dependents

\* C23: updateStatus changes, on the named task only, the status and those
\* of result, error, metadata and retries that are supplied; what is not
\* supplied keeps its value, every other task is unchanged, and no row is
\* created for an id that has none.
C23_UpdateStatusFrame ==
    [][\A nodeId \in DOMAIN store \cup {MissingId}, status \in UpdateStatuses, fields \in UpdateFields :
          StoreUpdateFields(nodeId, status, fields) => UpdateFrame(nodeId, status, fields)]_vars

\* a row updated twice, the second time without an error: the error is
\* kept; the other row as persisted
C23_Witness ==
    /\ store # EmptyStore
    /\ store[<<"write", "1">>].status = "completed"
    /\ store[<<"write", "1">>].error = "boom"
    /\ store[<<"write", "1">>].result = Obj("r")
    /\ store[<<"write", "1">>].retries = 0
    /\ store[<<"prepare", "1">>] = [Row(dag.nodes[1]) EXCEPT !.dependents = << <<"write", "1">> >>]
    /\ MissingId \notin DOMAIN store

\* C24: when schedule(projectId, dag) with reset returns, the rows of the
\* project are exactly the nodes of the DAG, whatever the project held
\* before; every task without dependencies (prepare, materialize_fixed) is
\* running with exactly one job, on the queue of its type; every other task
\* is pending as persisted, with no job.
C24_ScheduleWithReset ==
    \A h \in DOMAIN procs :
        (AtReturn(h) /\ procs[h].op = "schedule") =>
            /\ DOMAIN store = {dag.nodes[i].id : i \in 1..Len(dag.nodes)}
            /\ \A i \in 1..Len(dag.nodes) :
                  LET n == dag.nodes[i] IN
                  IF n.dependencies = <<>>
                  THEN /\ n.type \in {"prepare", "materialize_fixed"}
                       /\ Status(n.id) = "running"
                       /\ Len(jobs[<<n.id, "task">>]) = 1
                       /\ jobs[<<n.id, "task">>][1].queue = ResolveQueue(n.type)
                       /\ <<<<n.id, "task">>, 1>> \in procs[h].added
                  ELSE /\ n.type \notin {"prepare", "materialize_fixed"}
                       /\ Status(n.id) = "pending"
                       /\ store[n.id].result = NoValue /\ store[n.id].error = None
                       /\ jobs[<<n.id, "task">>] = <<>>
            /\ \A name \in DOMAIN jobs : name[2] = "autofix" => jobs[name] = <<>>

\* the project held rows of an earlier schedule, one of them under an id of the new DAG
C24_Witness ==
    \E h \in DOMAIN procs :
        /\ AtReturn(h) /\ procs[h].op = "schedule"
        /\ <<"materialize", "3">> \in DOMAIN procs[h].pre
        /\ procs[h].pre[DocumentId].status = "completed"
        /\ <<"materialize", "3">> \notin DOMAIN store
        /\ Status(DocumentId) = "pending"
        /\ Status(<<"prepare", "1">>) = "running" /\ Status(<<"materialize", "2">>) = "running"

HasJob(id) == jobs[<<id, "task">>] # <<>>
AllCompleted == DOMAIN store # {} /\ \A id \in DOMAIN store : Status(id) = "completed"

Chapters == {"1", "2"}
IsStatus(id, status) == id \in DOMAIN store /\ store[id].status = status

\* a task of the chapter has status failed
FailedIn(ch) == \E id \in DOMAIN store : id[2] = ch /\ Status(id) = "failed"

\* a job of the chapter threw, or its verifier returned hard_fail
FailureIn(ch) ==
    \E j \in JobRefs :
        /\ j[1][1][2] = ch
        /\ JobAt(j).state \in {"finished", "handled"}
        /\ JobAt(j).out = NoValue \/ JobAt(j).out.status = "hard_fail"

C26_WitnessGenerated ==
    /\ FailedIn("2") /\ ~FailureIn("1")
    /\ Status(<<"assemble", "1">>) = "completed"
    /\ jobs[<<<<"verify", "1">>, "autofix">>] # <<>>
    /\ ~HasJob(DocumentId) /\ Status(DocumentId) = "pending"

\* the jobs pushed for the task
JobsOf(id) == {j \in JobRefs : j[1] = <<id, "task">>}

\* C27: the payload of every write job has the user prompt of the result of
\* the chapter's prepare task, and, when the chapter has a retrieve task,
\* the contextPack of that task's result.
C27_WritePayload ==
    \A id \in DOMAIN store : \A j \in JobsOf(id) :
        store[id].type = "write" =>
            /\ JobAt(j).payload.prompt = store[<<"prepare", id[2]>>].result.prompt
            /\ <<"retrieve", id[2]>> \in DOMAIN store =>
                  JobAt(j).payload.contextPack = store[<<"retrieve", id[2]>>].result.contextPack

\* C27, for the DAGs built without retrieval
C27_WritePayloadNoRetrieve ==
    \A id \in DOMAIN store : \A j \in JobsOf(id) :
        (store[id].type = "write" /\ <<"retrieve", id[2]>> \notin DOMAIN store) =>
            JobAt(j).payload.prompt = store[<<"prepare", id[2]>>].result.prompt

\* the values a payload holds: its draft and its fixed blocks
PayloadParts(p) == {Draft(p.draft)} \cup {Draft(p.fixedBlocks[i]) : i \in 1..Len(p.fixedBlocks)}

\* C28: the payload of every job of assemble:document holds the result of
\* every chapter's assemble task it depends on.
C28_DocumentPayload ==
    \A j \in JobsOf(DocumentId) : \A dep \in Dependencies(DocumentId) :
        store[dep].result \in PayloadParts(JobAt(j).payload)

\* a job was added for the task in this step, under either job name
PushedAny(id) ==
    \/ Len(jobs'[<<id, "task">>]) > Len(jobs[<<id, "task">>])
    \/ Len(jobs'[<<id, "autofix">>]) > Len(jobs[<<id, "autofix">>])

\* C29: a step of the dispatcher taken while a task has status failed adds
\* no job for the task and leaves it neither pending nor running.
C29_FailedNotRetried ==
    [][\A id \in DOMAIN store :
          Status(id) = "failed" =>
              /\ ~PushedAny(id)
              /\ id \in DOMAIN store' /\ store'[id].status \notin {"pending", "running"}]_vars

\* the call handled a failure: a thrown job, a hard_fail verdict, an autofix failure
HandledFailure(h) == AtReturn(h) /\ (IsFailure(procs[h].ev) \/ IsVerdict(procs[h].ev, "hard_fail"))

\* the tasks the task depends on, directly or through other tasks
RECURSIVE Above(_)
Above(ids) ==
    LET more == UNION {Dependencies(m) \cap DOMAIN store : m \in ids}
    IN  IF more \subseteq ids THEN ids ELSE Above(ids \cup more)

\* C30: handling a failure of a task changes that task's row and the status
\* of the tasks in its dependents list, nothing else: the tasks it depends
\* on, directly or transitively, and the tasks of other chapters keep their
\* rows (status, result, error included), and no row is added or removed.
C30_FailureFrame ==
    \A h \in DOMAIN procs :
        LET n == procs[h].ev.nodeId
            pre == procs[h].pre
        IN  HandledFailure(h) =>
                /\ DOMAIN store = DOMAIN pre
                /\ \A id \in DOMAIN store \ ({n} \cup Dependents(n)) : store[id] = pre[id]
                /\ \A d \in Dependents(n) : store[d] = [pre[d] EXCEPT !.status = store[d].status]
                /\ \A a \in Above({n}) \ {n} :
                      /\ store[a].status = pre[a].status
                      /\ store[a].result = pre[a].result
                      /\ store[a].error = pre[a].error
                /\ \A id \in DOMAIN store :
                      (id[2] # n[2] /\ id # DocumentId) => store[id] = pre[id]

\* verify:1 failed on a hard_fail: write:1 and prepare:1 stay completed with
\* their results, the other chapter keeps its rows, assemble:1 is blocked
C30_Witness ==
    \E h \in DOMAIN procs :
        /\ HandledFailure(h) /\ procs[h].ev.nodeId = <<"verify", "1">>
        /\ IsVerdict(procs[h].ev, "hard_fail")
        /\ Status(<<"verify", "1">>) = "failed"
        /\ Status(<<"write", "1">>) = "completed" /\ store[<<"write", "1">>].result # NoValue
        /\ Status(<<"prepare", "1">>) = "completed"
        /\ Status(<<"materialize", "2">>) = "completed"
        /\ Status(<<"assemble", "2">>) = "running"
        /\ procs[h].pre[<<"assemble", "1">>].status = "pending"
        /\ Status(<<"assemble", "1">>) = "blocked"

\* a task the given task depends on, directly or transitively, is failed
FailedAbove(id) == \E a \in Above({id}) \ {id} : Status(a) = "failed"

\* the verify task is under repair: an autofix job of it is waiting, active
\* or finished with its event not handled yet, or the call that handles its
\* soft_fail is about to add that job
UnderRepair(id) ==
    /\ store[id].type = "verify"
    /\ \/ \E i \in 1..Len(jobs[<<id, "autofix">>]) :
              jobs[<<id, "autofix">>][i].state \in {"waiting", "active", "finished"}
       \/ \E h \in DOMAIN procs : procs[h].pc = "soft_add" /\ procs[h].ev.nodeId = id

\* C31: a task is blocked only if a task it depends on, directly or
\* transitively, is failed, or it is a verify task under repair.
C31_BlockedOnlyWithCause ==
    \A id \in DOMAIN store : Status(id) = "blocked" => FailedAbove(id) \/ UnderRepair(id)

\* C32: a task that is running or completed has every dependency completed;
\* in particular assemble:document is not completed while the assemble task
\* of a chapter is not.
C32_ActiveOnlyWithDepsCompleted ==
    \A id \in DOMAIN store :
        Status(id) \in {"running", "completed"} => DepsCompleted(store, id)

\* the call writes the running status of a progress event in this step
WritesRunning(h) == procs[h].pc = "run_update" /\ procs'[h].pc # "run_update"

\* C33: the write of a running progress event finds the task running and
\* changes no row.
C33_RunningEventChangesNothing ==
    [][\A h \in DOMAIN procs :
          WritesRunning(h) =>
              /\ Status(procs[h].ev.nodeId) = "running"
              /\ store' = store]_vars

\* no call in flight, no event to handle, no job waiting, active or unhandled
Quiescent ==
    /\ \A h \in DOMAIN procs : procs[h].op = "idle"
    /\ events = <<>>
    /\ \A j \in JobRefs : JobAt(j).state \notin {"waiting", "active", "finished"}

\* resume() would push nothing, and a task that is neither completed nor
\* failed nor below a failed task is left
Stuck ==
    /\ Quiescent /\ ListReadyTasks(store) = {}
    /\ \E id \in DOMAIN store : Status(id) \notin {"completed", "failed"} /\ ~FailedAbove(id)

\* C34: whatever call the process stopped in, with resume() called after the
\* restart no task has two outstanding jobs, and no task that is neither
\* completed, failed nor below a failed task is left without a way to be
\* dispatched.
C34_CrashSafe ==
    /\ \A id \in DOMAIN store : Cardinality(Outstanding(id)) <= 1
    /\ ~Stuck

\* the second half of C34 on its own
C34_NeverStuck == ~Stuck

\* the nodes no node of the DAG depends on
Terminals == {id \in NodeIds : \A other \in NodeIds : id \notin DepsOf(other)}

C35_WitnessEmpty == plan.built /\ plan.outline = <<>> /\ dag = EmptyDag

\* the pairs (d, n) with d among the dependencies of node n
DependencyPairs == UNION {{<<d, id>> : d \in DepsOf(id)} : id \in NodeIds}
EdgePairs == {<<dag.edges[i].from, dag.edges[i].to>> : i \in 1..Len(dag.edges)}

\* the rows persistDag makes of the DAG on an empty project
PersistedRows == PersistDag(EmptyStore, dag)

\* C36: whatever the outline, the ids of the nodes are pairwise distinct,
\* every dependency and every edge endpoint is a node, the edges are exactly
\* the pairs (dependency, node), and after persistDag the dependents of a
\* task are exactly the tasks that depend on it, never the task itself.
C36_EdgesMatchDependencies ==
    plan.built =>
        /\ \A id \in NodeIds : Cardinality(NodesWithId(id)) = 1
        /\ \A id \in NodeIds : DepsOf(id) \subseteq NodeIds
        /\ \A e \in EdgePairs : e[1] \in NodeIds /\ e[2] \in NodeIds
        /\ EdgePairs = DependencyPairs
        /\ \A id \in DOMAIN PersistedRows :
              /\ SeqToSet(PersistedRows[id].dependents) = {n \in NodeIds : id \in DepsOf(n)}
              /\ ~Includes(PersistedRows[id].dependents, id)

\* the first three parts of C36, which hold
C36_IdsDistinctAndClosed ==
    plan.built =>
        /\ \A id \in NodeIds : Cardinality(NodesWithId(id)) = 1
        /\ \A id \in NodeIds : DepsOf(id) \subseteq NodeIds
        /\ \A e \in EdgePairs : e[1] \in NodeIds /\ e[2] \in NodeIds

\* the self-edge of a chapter numbered "document"
C36_NoSelfEdge == plan.built => \A e \in EdgePairs : e[1] # e[2]

\* the task is running and its job will never report: the job hangs and its
\* running event has been handled
Stalled(id) ==
    /\ IsStatus(id, "running")
    /\ \E i \in 1..Len(jobs[<<id, "task">>]) : jobs[<<id, "task">>][i].state = "hung"
    /\ Outstanding(id) = {}
    /\ ~ \E i \in 1..Len(events) : events[i].nodeId = id
    /\ ~ \E h \in DOMAIN procs : procs[h].op # "idle" /\ procs[h].ev.nodeId = id

\* the step blocks the task for the failure of one of its dependencies
BlockedByFailure(m) ==
    /\ store'[m] = [store[m] EXCEPT !.status = "blocked"]
    /\ \E d \in Dependencies(m) : Status(d) = "failed"

\* C37: no step of the dispatcher, resume() included, changes a task whose
\* job never reports: it stays running with no new job, and every task that
\* depends on it, directly or transitively, stays undispatched and pending
\* (or is blocked for the failure of another of its dependencies).
C37_NoTimeout ==
    [][\A id \in DOMAIN store :
          Stalled(id) =>
              /\ id \in DOMAIN store' /\ store'[id] = store[id]
              /\ ~PushedAny(id)
              /\ \A m \in DependOn({id}) :
                    /\ Status(m) \in {"pending", "blocked"}
                    /\ ~PushedAny(m)
                    /\ jobs[<<m, "task">>] = <<>>
                    /\ store'[m] = store[m] \/ BlockedByFailure(m)]_vars

\* C37 without the case of a failure elsewhere: the dependents stay pending
C37_DependentsStayPending ==
    \A id \in DOMAIN store :
        Stalled(id) => \A m \in DependOn({id}) : Status(m) = "pending"

\* the job of write:1 hangs; chapter 2 is assembled, resume() has found
\* nothing to push, and the chapter's later stages and the sink are pending
C37_Witness ==
    /\ Stalled(<<"write", "1">>)
    /\ IsStatus(<<"assemble", "2">>, "completed")
    /\ IsStatus(<<"verify", "1">>, "pending") /\ IsStatus(<<"assemble", "1">>, "pending")
    /\ IsStatus(DocumentId, "pending")
    /\ \E h \in DOMAIN procs :
          AtReturn(h) /\ procs[h].op = "resume" /\ procs[h].added = {} /\ procs[h].pre = store

\* the verify jobs enqueued after a repair: job i + 1 of the task follows its
\* i-th autofix job
Reverified(id) ==
    {i \in 1..Len(jobs[<<id, "autofix">>]) : i + 1 <= Len(jobs[<<id, "task">>])}

\* C38: the verify job enqueued after a successful autofix has as its
\* payload draft the patched draft the autofix job returned.
C38_ReverifyPatchedDraft ==
    \A id \in DOMAIN store : \A i \in Reverified(id) :
        jobs[<<id, "task">>][i + 1].payload.draft = jobs[<<id, "autofix">>][i].out.draft

\* the draft it has instead: the one of the write task's result
C38_ReverifyWriteDraft ==
    \A id \in DOMAIN store : \A i \in Reverified(id) :
        /\ store[id].type = "verify"
        /\ jobs[<<id, "task">>][i + 1].payload.draft = store[<<"write", id[2]>>].result.draft
        /\ store[id].metadata.draft = jobs[<<id, "autofix">>][i].out.draft

C38_Witness == \E id \in DOMAIN store : Reverified(id) # {}

\* the chapters of the stored DAG by the way they get their content
FixedChapter(id) ==
    store[id].type = "assemble" /\ <<"materialize", id[2]>> \in Dependencies(id)
GeneratedChapter(id) ==
    store[id].type = "assemble" /\ <<"verify", id[2]>> \in Dependencies(id)

\* C39: the assemble job of a generated chapter has as its draft the draft
\* the chapter's verify task accepted and stored as its result; the assemble
\* job of a fixed chapter has the rendered block of the result of the
\* chapter's materialize_fixed task.
C39_AssemblePayload ==
    \A id \in DOMAIN store : \A j \in JobsOf(id) :
        /\ GeneratedChapter(id) =>
              /\ JobAt(j).payload.draft # None
              /\ store[<<"verify", id[2]>>].result = Draft(JobAt(j).payload.draft)
        /\ FixedChapter(id) =>
              JobAt(j).payload.fixedBlocks
                  = << store[<<"materialize", id[2]>>].result.renderedBlock >>

\* the part of C39 about fixed chapters
C39_FixedBlocks ==
    \A id \in DOMAIN store : \A j \in JobsOf(id) :
        FixedChapter(id) =>
            /\ JobAt(j).payload.fixedBlocks
                  = << store[<<"materialize", id[2]>>].result.renderedBlock >>
            /\ JobAt(j).payload.fixedBlocks = << "b1" >>

\* what the job of a generated chapter has: no draft at all
C39_GeneratedNoDraft ==
    \A id \in DOMAIN store : \A j \in JobsOf(id) :
        GeneratedChapter(id) =>
            /\ JobAt(j).payload.draft = None
            /\ store[<<"verify", id[2]>>].result = Draft("d0")

C39_Witness ==
    /\ \E id \in DOMAIN store : GeneratedChapter(id) /\ JobsOf(id) # {}
    /\ \E id \in DOMAIN store : FixedChapter(id) /\ JobsOf(id) # {}

\* the rows of the table that belong to the project, and the others
OnlyProject(tb, projectId) == [k \in {r \in DOMAIN tb : r[1] = projectId} |-> tb[k]]
OtherProjects(tb, projectId) == [k \in {r \in DOMAIN tb : r[1] # projectId} |-> tb[k]]

\* C40: a store operation or dispatcher handler called for a project
\* (schedule with or without reset, clearProject, updateStatus, markBlocked,
\* progress and result handling) leaves every row of every other project as
\* it is, rows with the same node ids included, and changes the project's
\* rows as it would if the other projects' rows were not there;
\* listReadyTasks(P) returns rows of P only, the same rows whatever the
\* other projects hold.
C40_ProjectScoped ==
    [][/\ OtherProjects(taskState', project') = OtherProjects(taskState, project')
       /\ \A k \in TableListReadyTasks(taskState', project') : k[1] = project'
       /\ TableListReadyTasks(taskState', project')
             = TableListReadyTasks(OnlyProject(taskState', project'), project')]_vars

\* C40 as a state predicate: the ready rows of a project are those of the
\* project's rows alone
C40_ListReadyScoped ==
    \A projectId \in Projects :
        TableListReadyTasks(taskState, projectId)
            = TableListReadyTasks(OnlyProject(taskState, projectId), projectId)

\* both projects hold assemble:1 and assemble:document; p has just had the
\* failure of assemble:1 handled, which blocked its assemble:document, while
\* q's assemble:document is pending and q's assemble:1 is running
C40_Witness ==
    /\ project = "p"
    /\ <<"p", DocumentId>> \in DOMAIN taskState /\ <<"q", DocumentId>> \in DOMAIN taskState
    /\ taskState[<<"p", <<"assemble", "1">>>>].status = "failed"
    /\ taskState[<<"p", DocumentId>>].status = "blocked"
    /\ taskState[<<"q", <<"assemble", "1">>>>].status = "running"
    /\ taskState[<<"q", DocumentId>>].status = "pending"

\* p is scheduled again with reset while q is half way: q's rows stay
C40_WitnessReset ==
    /\ project = "p"
    /\ <<"p", <<"materialize", "1">>>> \in DOMAIN taskState
    /\ taskState[<<"p", <<"materialize", "1">>>>].status = "running"
    /\ <<"q", <<"materialize", "1">>>> \in DOMAIN taskState
    /\ taskState[<<"q", <<"materialize", "1">>>>].status = "completed"
    /\ taskState[<<"q", <<"assemble", "1">>>>].status = "running"

====
